---- MODULE Spec2Model ----
(***************************************************************************)
(* Room state machine of the JMockDraft server (server.js, room-based      *)
(* revision): the draftRooms registry, the turn engine calculateNextTurn,  *)
(* the socket handlers start_draft, join_draft, make_pick, undo_pick,      *)
(* update_table_name, leave_draft and disconnect, and the cleanup timers   *)
(* of scheduleEmptyRoomRemoval.                                            *)
(*                                                                         *)
(* A JavaScript Set is modelled as a duplicate-free sequence in insertion  *)
(* order (the order Array.from yields).  A stored pick keeps the fields    *)
(* the server branches on (playerId, position, teamId); playerName,        *)
(* salary, team_url and city are copied verbatim by the handler and never  *)
(* read again, and are left out.  Every handler runs to completion on the  *)
(* event loop, so each handler is one action.                              *)
(*                                                                         *)
(* view holds, per connection, the state of the page behind it (the client *)
(* script): currentRoomCode and currentServerState.  The specifications    *)
(* of the server alone leave it as it is; SpecClients delivers the         *)
(* messages of each handler, in order, before the next handler runs.       *)
(*                                                                         *)
(* generating is empty unless a start_draft is inside the do-while loop of *)
(* generateRoomCode; it then holds the request and the last sample.  Only  *)
(* SpecCodes takes the loop apart; elsewhere start_draft is one action.    *)
(*                                                                         *)
(* lineage is history, not state of the program: how many rooms were       *)
(* created under each code so far, and for each pending timer the number   *)
(* of the room that was emptied when the timer was set.  Only SpecReuse    *)
(* records it.                                                             *)
(***************************************************************************)
EXTENDS Integers, Sequences, FiniteSets, TLC

VARIABLES draftRooms, roomOrder, connected, channels, timers, emitted, view, generating, lineage

vars == <<draftRooms, roomOrder, connected, channels, timers, emitted, view, generating, lineage>>

(***************************************************************************)
(* Bounds of the model.                                                    *)
(***************************************************************************)
MaxPlayerId == 2
MaxOrderPlayerId == 10
MaxTimers == 1
MaxRoomTimers == 2
MaxTurnPicks == 4
MaxRoomsPerCode == 2

Sockets == {"s1", "s2"}
AllCodes == {"A", "B"}
DraftCodes == {"A"}
PlayerIds == 1..MaxPlayerId
TeamIdInputs == -1..1
RenameTeamInputs == {-1, 0, 2}
PositionInputs == {"F", "D", "X"}
NameInputs == {"", "  ", " Ann "}

(***************************************************************************)
(* Program constants.                                                      *)
(***************************************************************************)
ROOM_CLEANUP_DELAY_SHORT == 60000
ROOM_CLEANUP_DELAY_LONG == 86400000
positions == <<"F", "D", "G">>

(***************************************************************************)
(* JavaScript helpers.                                                     *)
(***************************************************************************)
Range(q) == {q[i] : i \in 1..Len(q)}

\* Set.prototype.has
SetHas(q, x) == x \in Range(q)

\* Set.prototype.add: appends unless present
SetAdd(q, x) == IF SetHas(q, x) THEN q ELSE Append(q, x)

\* Set.prototype.delete: removes the element, keeps the order of the rest
SetDelete(q, x) == SelectSeq(q, LAMBDA y : y # x)

\* Array.prototype.pop: the array without its last element
Pop(q) == SubSeq(q, 1, Len(q) - 1)

\* the % operator: the result takes the sign of the dividend
JsRem(a, b) == IF a >= 0 THEN a % b ELSE 0 - ((0 - a) % b)

\* String.prototype.trim().toUpperCase() on the room codes the model sends
TrimUpper(raw) ==
    CASE raw = "a" -> "A"
      [] raw = " A " -> "A"
      [] raw = "b" -> "B"
      [] raw = "  " -> ""
      [] OTHER -> raw

\* String.prototype.trim() on the team names the model sends
Trim(name) ==
    CASE name = " Ann " -> "Ann"
      [] name = "  " -> ""
      [] OTHER -> name

\* the template `Team ${teamId + 1}`
DefaultNames == <<"Team 0", "Team 1", "Team 2", "Team 3", "Team 4">>
DefaultName(teamId) == DefaultNames[teamId + 2]

(***************************************************************************)
(* Turn engine.                                                            *)
(***************************************************************************)
\* Object.values(playersPerPos).reduce((sum, count) => sum + (count || 0), 0)
totalSlotsPerTable(playersPerPos) ==
    playersPerPos["F"] + playersPerPos["D"] + playersPerPos["G"]

\* calculateNextTurn without the wrap-around of the team index
calculateNextTurnNoWrap(currentState) ==
    LET numTables == currentState.settings.numTables
        currentPicks == currentState.picks
        currentPickDirection == currentState.currentPickDirection
        lastActiveTableIndex == currentPicks[Len(currentPicks)].teamId
        totalSlots == numTables * totalSlotsPerTable(currentState.settings.playersPerPos)
        shouldReverseDirection ==
            /\ currentState.settings.isSerpentineOrder
            /\ \/ currentPickDirection = 1 /\ lastActiveTableIndex = numTables - 1
               \/ currentPickDirection = -1 /\ lastActiveTableIndex = 0
    IN  IF numTables <= 0 \/ Len(currentPicks) = 0
        THEN [nextTableToPick |-> 0, currentPickDirection |-> 1]
        ELSE IF totalSlots > 0 /\ Len(currentPicks) >= totalSlots
        THEN [nextTableToPick |-> -1, currentPickDirection |-> currentPickDirection]
        ELSE IF shouldReverseDirection
        THEN [nextTableToPick |-> lastActiveTableIndex,
              currentPickDirection |-> currentPickDirection * (-1)]
        ELSE [nextTableToPick |-> lastActiveTableIndex + currentPickDirection,
              currentPickDirection |-> currentPickDirection]

\* calculateNextTurn that moves on to the neighbouring team when it reverses
calculateNextTurnNoRepeat(currentState) ==
    LET numTables == currentState.settings.numTables
        currentPicks == currentState.picks
        currentPickDirection == currentState.currentPickDirection
        lastActiveTableIndex == currentPicks[Len(currentPicks)].teamId
        totalSlots == numTables * totalSlotsPerTable(currentState.settings.playersPerPos)
        shouldReverseDirection ==
            /\ currentState.settings.isSerpentineOrder
            /\ \/ currentPickDirection = 1 /\ lastActiveTableIndex = numTables - 1
               \/ currentPickDirection = -1 /\ lastActiveTableIndex = 0
    IN  IF numTables <= 0 \/ Len(currentPicks) = 0
        THEN [nextTableToPick |-> 0, currentPickDirection |-> 1]
        ELSE IF totalSlots > 0 /\ Len(currentPicks) >= totalSlots
        THEN [nextTableToPick |-> -1, currentPickDirection |-> currentPickDirection]
        ELSE IF shouldReverseDirection
        THEN [nextTableToPick |->
                  JsRem(lastActiveTableIndex - currentPickDirection + numTables, numTables),
              currentPickDirection |-> currentPickDirection * (-1)]
        ELSE [nextTableToPick |->
                  JsRem(lastActiveTableIndex + currentPickDirection + numTables, numTables),
              currentPickDirection |-> currentPickDirection]

\* calculateNextTurn that reports completion one pick late
calculateNextTurnLateCompletion(currentState) ==
    LET numTables == currentState.settings.numTables
        currentPicks == currentState.picks
        currentPickDirection == currentState.currentPickDirection
        lastActiveTableIndex == currentPicks[Len(currentPicks)].teamId
        totalSlots == numTables * totalSlotsPerTable(currentState.settings.playersPerPos)
        shouldReverseDirection ==
            /\ currentState.settings.isSerpentineOrder
            /\ \/ currentPickDirection = 1 /\ lastActiveTableIndex = numTables - 1
               \/ currentPickDirection = -1 /\ lastActiveTableIndex = 0
    IN  IF numTables <= 0 \/ Len(currentPicks) = 0
        THEN [nextTableToPick |-> 0, currentPickDirection |-> 1]
        ELSE IF totalSlots > 0 /\ Len(currentPicks) > totalSlots
        THEN [nextTableToPick |-> -1, currentPickDirection |-> currentPickDirection]
        ELSE IF shouldReverseDirection
        THEN [nextTableToPick |-> lastActiveTableIndex,
              currentPickDirection |-> currentPickDirection * (-1)]
        ELSE [nextTableToPick |->
                  JsRem(lastActiveTableIndex + currentPickDirection + numTables, numTables),
              currentPickDirection |-> currentPickDirection]

\* calculateNextTurn that reverses by subtracting one from the direction
calculateNextTurnDecrement(currentState) ==
    LET numTables == currentState.settings.numTables
        currentPicks == currentState.picks
        currentPickDirection == currentState.currentPickDirection
        lastActiveTableIndex == currentPicks[Len(currentPicks)].teamId
        totalSlots == numTables * totalSlotsPerTable(currentState.settings.playersPerPos)
        shouldReverseDirection ==
            /\ currentState.settings.isSerpentineOrder
            /\ \/ currentPickDirection = 1 /\ lastActiveTableIndex = numTables - 1
               \/ currentPickDirection = -1 /\ lastActiveTableIndex = 0
    IN  IF numTables <= 0 \/ Len(currentPicks) = 0
        THEN [nextTableToPick |-> 0, currentPickDirection |-> 1]
        ELSE IF totalSlots > 0 /\ Len(currentPicks) >= totalSlots
        THEN [nextTableToPick |-> -1, currentPickDirection |-> currentPickDirection]
        ELSE IF shouldReverseDirection
        THEN [nextTableToPick |-> lastActiveTableIndex,
              currentPickDirection |-> currentPickDirection - 1]
        ELSE [nextTableToPick |->
                  JsRem(lastActiveTableIndex + currentPickDirection + numTables, numTables),
              currentPickDirection |-> currentPickDirection]

calculateNextTurn(currentState) ==
    LET numTables == currentState.settings.numTables
        isSerpentineOrder == currentState.settings.isSerpentineOrder
        currentPicks == currentState.picks
        currentPickDirection == currentState.currentPickDirection
    IN  IF numTables <= 0
        THEN [nextTableToPick |-> 0, currentPickDirection |-> 1]
        ELSE IF Len(currentPicks) = 0
        THEN [nextTableToPick |-> 0, currentPickDirection |-> 1]
        ELSE
          LET lastActiveTableIndex == currentPicks[Len(currentPicks)].teamId
              totalSlots == numTables * totalSlotsPerTable(currentState.settings.playersPerPos)
              isEndOfForwardRound ==
                  currentPickDirection = 1 /\ lastActiveTableIndex = numTables - 1
              isEndOfBackwardRound ==
                  currentPickDirection = -1 /\ lastActiveTableIndex = 0
              shouldReverseDirection ==
                  isSerpentineOrder /\ (isEndOfForwardRound \/ isEndOfBackwardRound)
          IN  IF totalSlots > 0 /\ Len(currentPicks) >= totalSlots
              THEN [nextTableToPick |-> -1, currentPickDirection |-> currentPickDirection]
              ELSE IF shouldReverseDirection
              THEN [nextTableToPick |-> lastActiveTableIndex,
                    currentPickDirection |-> currentPickDirection * (-1)]
              ELSE [nextTableToPick |->
                        JsRem(lastActiveTableIndex + currentPickDirection + numTables, numTables),
                    currentPickDirection |-> currentPickDirection]

(***************************************************************************)
(* Messages.  emitted holds what the handler that ran last sent: one       *)
(* record per receiving connection; the cleanup callback, which sends      *)
(* nothing, leaves the line it logs.                                       *)
(***************************************************************************)
\* a rejection text; NoError is the null of validationError
Msg(text, team, position, name) ==
    [text |-> text, team |-> team, position |-> position, name |-> name]
NoError == Msg("", 0, "", "")

\* prepareStateForEmit that sends no selected ids
prepareStateForEmitNoIds(roomState) ==
    [settings |-> roomState.settings,
     picks |-> roomState.picks,
     selectedPlayerIds |-> <<>>,
     nextTableToPick |-> roomState.nextTableToPick,
     currentPickDirection |-> roomState.currentPickDirection,
     isSerpentineOrder |-> roomState.isSerpentineOrder,
     roomCode |-> roomState.roomCode,
     participants |-> roomState.participants]

\* prepareStateForEmit: Array.from of the two Sets, everything else spread
prepareStateForEmit(roomState) ==
    [settings |-> roomState.settings,
     picks |-> roomState.picks,
     selectedPlayerIds |-> roomState.selectedPlayerIds,
     nextTableToPick |-> roomState.nextTableToPick,
     currentPickDirection |-> roomState.currentPickDirection,
     isSerpentineOrder |-> roomState.isSerpentineOrder,
     roomCode |-> roomState.roomCode,
     participants |-> roomState.participants]

\* ErrorTo that emits to every connection instead of the requester
ErrorToAll(s, event, message) ==
    {[to |-> r, event |-> event, roomCode |-> "", message |-> message,
      draftState |-> <<>>, participants |-> <<>>] : r \in connected}

\* socket.emit(event, { message })
ErrorTo(s, event, message) ==
    {[to |-> s, event |-> event, roomCode |-> "", message |-> message,
      draftState |-> <<>>, participants |-> <<>>]}

\* emit(event, { roomCode, draftState }) to each connection of recipients
StateTo(recipients, event, roomCode, roomState) ==
    {[to |-> r, event |-> event, roomCode |-> roomCode, message |-> NoError,
      draftState |-> <<prepareStateForEmit(roomState)>>, participants |-> <<>>]
        : r \in recipients}

\* the participant_update that reaches nobody
ParticipantsToNobody(recipients, roomCode, roomState) == {}

\* emit('participant_update', { roomCode, participants })
ParticipantsTo(recipients, roomCode, roomState) ==
    {[to |-> r, event |-> "participant_update", roomCode |-> roomCode, message |-> NoError,
      draftState |-> <<>>, participants |-> <<roomState.participants>>]
        : r \in recipients}

\* console.log of the cleanup callback: "was empty and has been removed
\* after delay" or "removal cancelled (no longer empty or deleted)"
CleanupLog(roomCode, removed) ==
    {[to |-> "console",
      event |-> IF removed THEN "cleanup_removed" ELSE "cleanup_cancelled",
      roomCode |-> roomCode, message |-> NoError,
      draftState |-> <<>>, participants |-> <<>>]}

\* a write of roomState that lands in every room of the registry
SetRoomEverywhere(code, roomState) == [c \in DOMAIN draftRooms |-> roomState]

\* draftRooms.set(code, roomState) on an existing key
SetRoom(code, roomState) == [draftRooms EXCEPT ![code] = roomState]

\* the page after showStartScreen: currentRoomCode and currentServerState
\* are null
\* no room was created and no timer is pending
NoLineage == [born |-> [c \in AllCodes |-> 0], scheduledFor |-> <<>>]

StartScreen == [currentRoomCode |-> "", currentServerState |-> <<>>]

Init ==
    /\ draftRooms = [c \in {} |-> 0]
    /\ roomOrder = <<>>
    /\ connected = {}
    /\ channels = [c \in AllCodes |-> {}]
    /\ timers = <<>>
    /\ emitted = {}
    /\ view = [s \in Sockets |-> StartScreen]
    /\ generating = <<>>
    /\ lineage = NoLineage

\* io.on('connection')
Connect(s) ==
    /\ s \notin connected
    /\ connected' = connected \cup {s}
    /\ emitted' = {}
    /\ UNCHANGED <<draftRooms, roomOrder, channels, timers>>

(***************************************************************************)
(* start_draft                                                             *)
(***************************************************************************)
\* typeof settings.playersPerPos[pos] !== 'number' || settings.playersPerPos[pos] < 0;
\* settings.notNumber names the position whose count is not a number ("" when
\* all three are numbers)
invalidCount(settings, pos) ==
    settings.notNumber = pos \/ settings.playersPerPos[pos] < 0

\* the first position of F, D, G whose count is invalid (0 when none)
FirstInvalidPos(settings) ==
    IF \E i \in 1..3 : invalidCount(settings, positions[i])
    THEN CHOOSE i \in 1..3 :
            /\ invalidCount(settings, positions[i])
            /\ \A j \in 1..(i - 1) : ~invalidCount(settings, positions[j])
    ELSE 0

\* the settings validation without the test of maxSalary
StartValidationErrorNoSalary(settings) ==
    IF settings.numTables < 1
    THEN Msg("Invalid number of teams provided.", 0, "", "")
    ELSE IF FirstInvalidPos(settings) # 0
    THEN Msg("Invalid player count for position", 0,
             positions[FirstInvalidPos(settings)], "")
    ELSE IF totalSlotsPerTable(settings.playersPerPos) = 0
    THEN Msg("Total players per team cannot be zero.", 0, "", "")
    ELSE NoError

\* the settings validation of start_draft, on settings whose fields have
\* the expected JavaScript types
StartValidationError(settings) ==
    IF settings.numTables < 1
    THEN Msg("Invalid number of teams provided.", 0, "", "")
    ELSE IF settings.maxSalary < 0
    THEN Msg("Invalid maximum salary provided.", 0, "", "")
    ELSE IF FirstInvalidPos(settings) # 0
    THEN Msg("Invalid player count for position", 0,
             positions[FirstInvalidPos(settings)], "")
    ELSE IF totalSlotsPerTable(settings.playersPerPos) = 0
    THEN Msg("Total players per team cannot be zero.", 0, "", "")
    ELSE NoError

\* generateRoomCode without the test draftRooms.has(code)
generateRoomCodeNoCheck(universe) == universe

\* the codes generateRoomCode can return when it samples from universe:
\* those that are not keys of draftRooms
generateRoomCode(universe) == universe \ DOMAIN draftRooms

\* newRoomState with an empty participant set
newRoomStateNoCreator(s, settings, roomCode) ==
    [settings |-> settings,
     picks |-> <<>>,
     selectedPlayerIds |-> <<>>,
     nextTableToPick |-> 0,
     currentPickDirection |-> 1,
     isSerpentineOrder |-> settings.isSerpentineOrder,
     roomCode |-> roomCode,
     participants |-> <<>>]

newRoomState(s, settings, roomCode) ==
    [settings |-> settings,
     picks |-> <<>>,
     selectedPlayerIds |-> <<>>,
     nextTableToPick |-> 0,
     currentPickDirection |-> 1,
     isSerpentineOrder |-> settings.isSerpentineOrder,
     roomCode |-> roomCode,
     participants |-> <<s>>]

StartDraft(s, settings, roomCode) ==
    LET validationError == StartValidationError(settings)
        roomState == newRoomState(s, settings, roomCode)
    IN  /\ s \in connected
        /\ IF validationError # NoError
           THEN /\ emitted' = ErrorTo(s, "error", validationError)
                /\ UNCHANGED <<draftRooms, roomOrder, connected, channels, timers>>
           ELSE /\ roomCode \in generateRoomCode(AllCodes)
                /\ draftRooms' = [c \in DOMAIN draftRooms \cup {roomCode} |->
                                    IF c = roomCode THEN roomState ELSE draftRooms[c]]
                /\ roomOrder' = Append(roomOrder, roomCode)
                /\ channels' = [channels EXCEPT ![roomCode] = @ \cup {s}]
                /\ emitted' = StateTo({s}, "draft_started", roomCode, roomState)
                /\ UNCHANGED <<connected, timers>>

(***************************************************************************)
(* join_draft                                                              *)
(***************************************************************************)
JoinDraft(s, roomCode) ==
    LET upperRoomCode == TrimUpper(roomCode)
    IN  /\ s \in connected
        /\ IF upperRoomCode = ""
           THEN /\ emitted' = ErrorTo(s, "join_error",
                                      Msg("Invalid room code provided.", 0, "", ""))
                /\ UNCHANGED <<draftRooms, roomOrder, connected, channels, timers>>
           ELSE IF upperRoomCode \in DOMAIN draftRooms
           THEN LET roomState == [draftRooms[upperRoomCode] EXCEPT
                                     !.participants = SetAdd(@, s)]
                IN  /\ channels' = [channels EXCEPT ![upperRoomCode] = @ \cup {s}]
                    /\ draftRooms' = SetRoom(upperRoomCode, roomState)
                    /\ emitted' =
                          StateTo({s}, "draft_state_update", upperRoomCode, roomState)
                          \cup ParticipantsTo(channels[upperRoomCode] \ {s},
                                              upperRoomCode, roomState)
                    /\ UNCHANGED <<roomOrder, connected, timers>>
           ELSE /\ emitted' = ErrorTo(s, "join_error",
                                      Msg("Draft room not found.", 0, "", ""))
                /\ UNCHANGED <<draftRooms, roomOrder, connected, channels, timers>>

(***************************************************************************)
(* make_pick                                                               *)
(***************************************************************************)
\* currentCountForPos: picks.filter(p => p.teamId === teamId && p.position === position).length
currentCountForPos(picks, teamId, position) ==
    Len(SelectSeq(picks, LAMBDA p : p.teamId = teamId /\ p.position = position))

\* tableNames[teamId] || `Team ${teamId + 1}`
teamNameOf(settings, teamId) ==
    IF teamId \in DOMAIN settings.tableNames /\ settings.tableNames[teamId] # ""
    THEN settings.tableNames[teamId]
    ELSE DefaultName(teamId)

\* the capacity test with > in place of >=
slotsFilledStrict(roomState, teamId, position) ==
    currentCountForPos(roomState.picks, teamId, position)
        > roomState.settings.playersPerPos[position]

\* the capacity test: the team's slots at the position are all filled
slotsFilled(roomState, teamId, position) ==
    currentCountForPos(roomState.picks, teamId, position)
        >= roomState.settings.playersPerPos[position]

\* the turn test reading teamId as a 1-based team number
notTurnOneBased(roomState, pickData) == pickData.teamId + 1 # roomState.nextTableToPick

\* the turn test: the request is not for the team whose turn it is
notTurn(roomState, pickData) == pickData.teamId # roomState.nextTableToPick

\* the duplicate test left out
alreadySelectedNever(roomState, pickData) == FALSE

\* the duplicate test
alreadySelected(roomState, pickData) ==
    SetHas(roomState.selectedPlayerIds, pickData.playerId)

\* the validation chain with the duplicate test ahead of the turn test
PickValidationErrorDuplicateFirst(roomCode, pickData) ==
    IF roomCode \notin DOMAIN draftRooms
    THEN Msg("Draft room not found.", 0, "", "")
    ELSE IF pickData.shape = "notObject"
    THEN Msg("Invalid pick data format.", 0, "", "")
    ELSE IF pickData.shape = "incomplete"
    THEN Msg("Incomplete pick data received.", 0, "", "")
    ELSE IF alreadySelected(draftRooms[roomCode], pickData)
    THEN Msg("Player already selected.", 0, "", "")
    ELSE IF notTurn(draftRooms[roomCode], pickData)
    THEN Msg("It's not this team's turn.", pickData.teamId + 1, "", "")
    ELSE IF pickData.position \notin {"F", "D", "G"}
    THEN Msg("Invalid player position specified", 0, pickData.position, "")
    ELSE IF slotsFilled(draftRooms[roomCode], pickData.teamId, pickData.position)
    THEN Msg("All slots are already filled for", 0, pickData.position,
             teamNameOf(draftRooms[roomCode].settings, pickData.teamId))
    ELSE NoError

\* the validation chain of make_pick; pickData.shape stands for the two
\* structural tests (not an object; a field of the wrong type)
PickValidationError(roomCode, pickData) ==
    IF roomCode \notin DOMAIN draftRooms
    THEN Msg("Draft room not found.", 0, "", "")
    ELSE IF pickData.shape = "notObject"
    THEN Msg("Invalid pick data format.", 0, "", "")
    ELSE IF pickData.shape = "incomplete"
    THEN Msg("Incomplete pick data received.", 0, "", "")
    ELSE IF notTurn(draftRooms[roomCode], pickData)
    THEN Msg("It's not this team's turn.", pickData.teamId + 1, "", "")
    ELSE IF alreadySelected(draftRooms[roomCode], pickData)
    THEN Msg("Player already selected.", 0, "", "")
    ELSE IF pickData.position \notin {"F", "D", "G"}
    THEN Msg("Invalid player position specified", 0, pickData.position, "")
    ELSE IF slotsFilled(draftRooms[roomCode], pickData.teamId, pickData.position)
    THEN Msg("All slots are already filled for", 0, pickData.position,
             teamNameOf(draftRooms[roomCode].settings, pickData.teamId))
    ELSE NoError

pickToStore(pickData) ==
    [playerId |-> pickData.playerId,
     position |-> pickData.position,
     teamId |-> pickData.teamId]

\* the assignment of calculateNextTurn's result to the room
withNextTurn(roomState) ==
    [roomState EXCEPT
        !.nextTableToPick = calculateNextTurn(roomState).nextTableToPick,
        !.currentPickDirection = calculateNextTurn(roomState).currentPickDirection]

\* "Process Pick" with unshift in place of push
roomAfterPickUnshift(roomState, pickData) ==
    withNextTurn([roomState EXCEPT
        !.picks = <<pickToStore(pickData)>> \o @,
        !.selectedPlayerIds = SetAdd(@, pickData.playerId)])

\* the room after "Process Pick"
roomAfterPick(roomState, pickData) ==
    withNextTurn([roomState EXCEPT
        !.picks = Append(@, pickToStore(pickData)),
        !.selectedPlayerIds = SetAdd(@, pickData.playerId)])

MakePick(s, roomCode, pickData) ==
    LET validationError == PickValidationError(roomCode, pickData)
    IN  /\ s \in connected
        /\ IF validationError # NoError
           THEN /\ emitted' = ErrorTo(s, "pick_error", validationError)
                /\ UNCHANGED <<draftRooms, roomOrder, connected, channels, timers>>
           ELSE LET roomState == roomAfterPick(draftRooms[roomCode], pickData)
                IN  /\ draftRooms' = SetRoom(roomCode, roomState)
                    /\ emitted' = StateTo(channels[roomCode], "draft_state_update",
                                          roomCode, roomState)
                    /\ UNCHANGED <<roomOrder, connected, channels, timers>>

(***************************************************************************)
(* undo_pick                                                               *)
(***************************************************************************)
\* "Process Undo" without selectedPlayerIds.delete
roomAfterUndoKeepsId(roomState) ==
    withNextTurn([roomState EXCEPT !.picks = Pop(@)])

\* the room after "Process Undo"
roomAfterUndo(roomState) ==
    withNextTurn([roomState EXCEPT
        !.picks = Pop(@),
        !.selectedPlayerIds = SetDelete(@, roomState.picks[Len(roomState.picks)].playerId)])

UndoPick(s, roomCode) ==
    /\ s \in connected
    /\ IF roomCode \notin DOMAIN draftRooms
       THEN /\ emitted' = ErrorTo(s, "error", Msg("Draft room not found.", 0, "", ""))
            /\ UNCHANGED <<draftRooms, roomOrder, connected, channels, timers>>
       ELSE IF Len(draftRooms[roomCode].picks) = 0
       THEN /\ emitted' = ErrorTo(s, "error", Msg("No picks to undo.", 0, "", ""))
            /\ UNCHANGED <<draftRooms, roomOrder, connected, channels, timers>>
       ELSE LET roomState == roomAfterUndo(draftRooms[roomCode])
            IN  /\ draftRooms' = SetRoom(roomCode, roomState)
                /\ emitted' = StateTo(channels[roomCode], "draft_state_update",
                                      roomCode, roomState)
                /\ UNCHANGED <<roomOrder, connected, channels, timers>>

(***************************************************************************)
(* update_table_name                                                       *)
(***************************************************************************)
\* finalName without the default for a blank name
finalNameNoDefault(teamId, newName) == Trim(newName)

\* newName.trim() || `Team ${teamId + 1}`
finalName(teamId, newName) ==
    IF Trim(newName) # "" THEN Trim(newName) ELSE DefaultName(teamId)

UpdateTableName(s, roomCode, teamId, newName) ==
    /\ s \in connected
    /\ IF roomCode \notin DOMAIN draftRooms
       THEN /\ emitted' = ErrorTo(s, "error",
                                  Msg("Draft room or settings not found.", 0, "", ""))
            /\ UNCHANGED <<draftRooms, roomOrder, connected, channels, timers>>
       ELSE IF teamId < 0 \/ teamId >= draftRooms[roomCode].settings.numTables
       THEN /\ emitted' = ErrorTo(s, "error",
                                  Msg("Invalid table name update request data.", 0, "", ""))
            /\ UNCHANGED <<draftRooms, roomOrder, connected, channels, timers>>
       ELSE LET roomState == [draftRooms[roomCode] EXCEPT
                                 !.settings.tableNames[teamId] = finalName(teamId, newName)]
            IN  /\ draftRooms' = SetRoom(roomCode, roomState)
                /\ emitted' = StateTo(channels[roomCode], "draft_state_update",
                                      roomCode, roomState)
                /\ UNCHANGED <<roomOrder, connected, channels, timers>>

(***************************************************************************)
(* leave_draft, disconnect and the cleanup timers                          *)
(***************************************************************************)
\* handleLeaveOrDisconnect that schedules no removal of an emptied room
handleLeaveOrDisconnectNoTimer(st, socket, leavingSocketId, roomCode, chans) ==
    IF roomCode \notin DOMAIN st.rooms
       \/ ~SetHas(st.rooms[roomCode].participants, leavingSocketId)
    THEN st
    ELSE LET roomState == [st.rooms[roomCode] EXCEPT
                              !.participants = SetDelete(@, leavingSocketId)]
         IN  IF Len(roomState.participants) = 0
             THEN [st EXCEPT !.rooms[roomCode] = roomState]
             ELSE [st EXCEPT !.rooms[roomCode] = roomState,
                             !.emitted = @ \cup ParticipantsTo(chans[roomCode],
                                                               roomCode, roomState)]

\* handleLeaveOrDisconnect, a closure of the connection handler of socket:
\* st carries the rooms, the timers and the messages sent so far by the
\* running handler; chans is the channel membership at the call
\* handleLeaveOrDisconnect that schedules a removal whether or not the room
\* was emptied
handleLeaveOrDisconnectAlwaysTimer(st, socket, leavingSocketId, roomCode, chans) ==
    IF roomCode \notin DOMAIN st.rooms
       \/ ~SetHas(st.rooms[roomCode].participants, leavingSocketId)
    THEN st
    ELSE LET roomState == [st.rooms[roomCode] EXCEPT
                              !.participants = SetDelete(@, leavingSocketId)]
             delay == IF leavingSocketId = socket THEN ROOM_CLEANUP_DELAY_LONG
                                                  ELSE ROOM_CLEANUP_DELAY_SHORT
         IN  IF Len(roomState.participants) = 0
             THEN [st EXCEPT !.rooms[roomCode] = roomState,
                             !.timers = Append(@, [roomCode |-> roomCode, delay |-> delay])]
             ELSE [st EXCEPT !.rooms[roomCode] = roomState,
                             !.timers = Append(@, [roomCode |-> roomCode, delay |-> delay]),
                             !.emitted = @ \cup ParticipantsTo(chans[roomCode],
                                                               roomCode, roomState)]

handleLeaveOrDisconnect(st, socket, leavingSocketId, roomCode, chans) ==
    IF roomCode \notin DOMAIN st.rooms
       \/ ~SetHas(st.rooms[roomCode].participants, leavingSocketId)
    THEN st
    ELSE LET roomState == [st.rooms[roomCode] EXCEPT
                              !.participants = SetDelete(@, leavingSocketId)]
             delay == IF leavingSocketId = socket THEN ROOM_CLEANUP_DELAY_LONG
                                                  ELSE ROOM_CLEANUP_DELAY_SHORT
         IN  IF Len(roomState.participants) = 0
             THEN [st EXCEPT !.rooms[roomCode] = roomState,
                             !.timers = Append(@, [roomCode |-> roomCode, delay |-> delay])]
             ELSE [st EXCEPT !.rooms[roomCode] = roomState,
                             !.emitted = @ \cup ParticipantsTo(chans[roomCode],
                                                               roomCode, roomState)]

\* draftRooms.forEach((roomState, roomCode) => handleLeaveOrDisconnect(socket.id, roomCode))
\* over the keys in insertion order
RECURSIVE forEachRoom(_, _, _, _)
forEachRoom(st, socket, order, chans) ==
    IF order = <<>> THEN st
    ELSE forEachRoom(handleLeaveOrDisconnect(st, socket, socket, Head(order), chans),
                     socket, Tail(order), chans)

\* socket.io takes a closing socket out of every channel before it runs
\* the disconnect handlers
leaveAll(s) == [c \in AllCodes |-> channels[c] \ {s}]

Disconnect(s) ==
    LET st == forEachRoom([rooms |-> draftRooms, timers |-> timers, emitted |-> {}],
                          s, roomOrder, leaveAll(s))
    IN  /\ s \in connected
        /\ connected' = connected \ {s}
        /\ channels' = leaveAll(s)
        /\ draftRooms' = st.rooms
        /\ timers' = st.timers
        /\ emitted' = st.emitted
        /\ UNCHANGED roomOrder

\* a socket.leave that leaves the subscription in place
socketLeaveKeeps(s, room) == channels

\* socket.leave(room)
socketLeave(s, room) ==
    IF room \in AllCodes THEN [channels EXCEPT ![room] = @ \ {s}] ELSE channels

LeaveDraft(s, roomCode) ==
    LET upperRoomCode == TrimUpper(roomCode)
        st == handleLeaveOrDisconnect(
                  [rooms |-> draftRooms, timers |-> timers, emitted |-> {}],
                  s, s, upperRoomCode, socketLeave(s, upperRoomCode))
    IN  /\ s \in connected
        /\ IF upperRoomCode = ""
           THEN /\ emitted' = {}
                /\ UNCHANGED <<draftRooms, roomOrder, connected, channels, timers>>
           ELSE /\ channels' = socketLeave(s, upperRoomCode)
                /\ draftRooms' = st.rooms
                /\ timers' = st.timers
                /\ emitted' = st.emitted
                /\ UNCHANGED <<roomOrder, connected>>

\* the timers that can be the next to fire: no timer set earlier has a
\* delay at most as long
canFire(i) ==
    /\ i \in 1..Len(timers)
    /\ \A j \in 1..(i - 1) : timers[j].delay > timers[i].delay

\* the callback without the test that the room is still empty
TimerFireNoRecheck(i) ==
    LET roomCode == timers[i].roomCode
    IN  /\ canFire(i)
        /\ timers' = SubSeq(timers, 1, i - 1) \o SubSeq(timers, i + 1, Len(timers))
        /\ IF roomCode \in DOMAIN draftRooms
           THEN /\ draftRooms' = [c \in DOMAIN draftRooms \ {roomCode} |-> draftRooms[c]]
                /\ roomOrder' = SetDelete(roomOrder, roomCode)
                /\ emitted' = CleanupLog(roomCode, TRUE)
           ELSE /\ emitted' = CleanupLog(roomCode, FALSE)
                /\ UNCHANGED <<draftRooms, roomOrder>>
        /\ UNCHANGED <<connected, channels>>

\* the callback of scheduleEmptyRoomRemoval
TimerFire(i) ==
    LET roomCode == timers[i].roomCode
    IN  /\ canFire(i)
        /\ timers' = SubSeq(timers, 1, i - 1) \o SubSeq(timers, i + 1, Len(timers))
        /\ IF roomCode \in DOMAIN draftRooms /\ Len(draftRooms[roomCode].participants) = 0
           THEN /\ draftRooms' = [c \in DOMAIN draftRooms \ {roomCode} |-> draftRooms[c]]
                /\ roomOrder' = SetDelete(roomOrder, roomCode)
                /\ emitted' = CleanupLog(roomCode, TRUE)
           ELSE /\ emitted' = CleanupLog(roomCode, FALSE)
                /\ UNCHANGED <<draftRooms, roomOrder>>
        /\ UNCHANGED <<connected, channels>>

(***************************************************************************)
(* The requests the model sends.                                           *)
(***************************************************************************)
MkSettings(numTables, f, d, isSerpentineOrder, maxSalary) ==
    [numTables |-> numTables,
     tableNames |-> [t \in 0..(numTables - 1) |-> DefaultName(t)],
     playersPerPos |-> [F |-> f, D |-> d, G |-> 0],
     isSerpentineOrder |-> isSerpentineOrder,
     maxSalary |-> maxSalary,
     notNumber |-> ""]

ValidSettings ==
    {MkSettings(1, 1, 1, TRUE, 100), MkSettings(1, 1, 0, FALSE, 100),
     MkSettings(2, 1, 0, FALSE, 100)}

InvalidSettings ==
    {MkSettings(0, 1, 0, FALSE, 100), MkSettings(2, -1, 1, FALSE, 100),
     MkSettings(2, 0, 0, TRUE, 100), MkSettings(2, 1, 0, FALSE, -1),
     [MkSettings(2, 1, 0, FALSE, 100) EXCEPT !.notNumber = "D"]}

SettingsInputs == ValidSettings \cup {MkSettings(2, 0, 0, TRUE, 100)}

PickInputs ==
    [playerId : PlayerIds, teamId : TeamIdInputs, position : PositionInputs,
     shape : {"ok"}]
    \cup [playerId : {1}, teamId : {0}, position : {"F"},
          shape : {"notObject", "incomplete"}]

UnknownCodes == {"Z"}
JoinCodeInputs == DraftCodes \cup {"a", "  ", "Z"}

Next ==
    \/ \E s \in Sockets : Connect(s) /\ UNCHANGED <<view, generating, lineage>>
    \/ \E s \in Sockets, settings \in SettingsInputs, roomCode \in DraftCodes :
          StartDraft(s, settings, roomCode) /\ UNCHANGED <<view, generating, lineage>>
    \/ \E s \in Sockets, roomCode \in JoinCodeInputs :
          JoinDraft(s, roomCode) /\ UNCHANGED <<view, generating, lineage>>
    \/ \E s \in Sockets, roomCode \in DraftCodes, pickData \in PickInputs :
          MakePick(s, roomCode, pickData) /\ UNCHANGED <<view, generating, lineage>>
    \/ \E s \in Sockets, roomCode \in UnknownCodes :
          /\ MakePick(s, roomCode, [playerId |-> 1, teamId |-> 0, position |-> "F",
                                    shape |-> "ok"])
          /\ UNCHANGED <<view, generating, lineage>>
    \/ \E s \in Sockets, roomCode \in DraftCodes \cup UnknownCodes :
          UndoPick(s, roomCode) /\ UNCHANGED <<view, generating, lineage>>
    \/ \E s \in Sockets, roomCode \in DraftCodes,
          teamId \in RenameTeamInputs, newName \in NameInputs :
          UpdateTableName(s, roomCode, teamId, newName) /\ UNCHANGED <<view, generating, lineage>>
    \/ \E s \in Sockets, roomCode \in UnknownCodes :
          UpdateTableName(s, roomCode, 0, "") /\ UNCHANGED <<view, generating, lineage>>
    \/ \E s \in Sockets, roomCode \in JoinCodeInputs :
          LeaveDraft(s, roomCode) /\ Len(timers') <= MaxTimers /\ UNCHANGED <<view, generating, lineage>>
    \/ \E s \in Sockets : Disconnect(s) /\ Len(timers') <= MaxTimers /\ UNCHANGED <<view, generating, lineage>>
    \/ \E i \in 1..MaxTimers : TimerFire(i) /\ UNCHANGED <<view, generating, lineage>>

Spec == Init /\ [][Next]_vars

(***************************************************************************)
(* The draft order without undo: one connection starts one room and picks  *)
(* until the draft is complete.  Player identifiers only matter up to      *)
(* equality, so a request names a selected player or the next player of    *)
(* the catalogue.                                                          *)
(***************************************************************************)
OrderSockets == {"s1"}

OrderSettings ==
    {MkSettings(n, f, 0, b, 100) : n \in 1..3, f \in 1..3, b \in BOOLEAN}
    \cup {MkSettings(n, 1, 1, b, 100) : n \in 2..3, b \in BOOLEAN}

OrderPickInputs ==
    [playerId : 1..MaxOrderPlayerId, teamId : -1..3, position : {"F", "D"},
     shape : {"ok"}]

nextInCatalogue(roomCode, pickData) ==
    roomCode \in DOMAIN draftRooms
        => pickData.playerId <= Len(draftRooms[roomCode].picks) + 1

NextNoUndo ==
    \/ \E s \in OrderSockets : Connect(s) /\ UNCHANGED <<view, generating, lineage>>
    \/ \E s \in OrderSockets, settings \in OrderSettings, roomCode \in DraftCodes :
          StartDraft(s, settings, roomCode) /\ UNCHANGED <<view, generating, lineage>>
    \/ \E s \in OrderSockets, roomCode \in DraftCodes, pickData \in OrderPickInputs :
          /\ nextInCatalogue(roomCode, pickData)
          /\ MakePick(s, roomCode, pickData)
          /\ UNCHANGED <<view, generating, lineage>>

SpecNoUndo == Init /\ [][NextNoUndo]_vars

(***************************************************************************)
(* Picks and undos: one connection, one room, one and two teams with up to *)
(* two slots each, players picked in catalogue order.                      *)
(***************************************************************************)
UndoSettings ==
    {MkSettings(n, f, 0, b, 100) : n \in 1..2, f \in 1..2, b \in BOOLEAN}
    \cup {MkSettings(1, 1, 1, b, 100) : b \in BOOLEAN}

UndoPickInputs ==
    [playerId : 1..MaxOrderPlayerId, teamId : 0..1, position : {"F", "D"},
     shape : {"ok"}]

NextUndo ==
    \/ \E s \in OrderSockets : Connect(s) /\ UNCHANGED <<view, generating, lineage>>
    \/ \E s \in OrderSockets, settings \in UndoSettings, roomCode \in DraftCodes :
          StartDraft(s, settings, roomCode) /\ UNCHANGED <<view, generating, lineage>>
    \/ \E s \in OrderSockets, roomCode \in DraftCodes, pickData \in UndoPickInputs :
          /\ nextInCatalogue(roomCode, pickData)
          /\ MakePick(s, roomCode, pickData)
          /\ UNCHANGED <<view, generating, lineage>>
    \/ \E s \in OrderSockets, roomCode \in DraftCodes :
          UndoPick(s, roomCode) /\ UNCHANGED <<view, generating, lineage>>

SpecUndo == Init /\ [][NextUndo]_vars

(***************************************************************************)
(* calculateNextTurn on its own: a room of one to three teams with any     *)
(* history of up to MaxTurnPicks picks and either stored direction, whose  *)
(* turn is recomputed as make_pick and undo_pick recompute it.             *)
(***************************************************************************)
TurnSettings ==
    {MkSettings(n, f, d, b, 100) :
        n \in 1..3, f \in 0..2, d \in 0..1, b \in BOOLEAN} \
    {MkSettings(n, 0, 0, b, 100) : n \in 1..3, b \in BOOLEAN}

\* the picks of a history given as the teams that picked, in order
TurnHistory(teams) ==
    [i \in 1..Len(teams) |-> [playerId |-> i, position |-> "F", teamId |-> teams[i]]]

TurnHistories(numTables) ==
    UNION {[1..n -> 0..(numTables - 1)] : n \in 0..MaxTurnPicks}

InitTurn ==
    /\ \E settings \in TurnSettings, direction \in {1, -1} :
          \E teams \in TurnHistories(settings.numTables) :
              draftRooms = [c \in DraftCodes |->
                  [newRoomState("s1", settings, c) EXCEPT
                      !.picks = TurnHistory(teams),
                      !.selectedPlayerIds = [i \in 1..Len(teams) |-> i],
                      !.currentPickDirection = direction]]
    /\ roomOrder = <<"A">>
    /\ connected = {"s1"}
    /\ channels = [c \in AllCodes |-> IF c \in DraftCodes THEN {"s1"} ELSE {}]
    /\ timers = <<>>
    /\ emitted = {}
    /\ view = [s \in Sockets |-> StartScreen]
    /\ generating = <<>>
    /\ lineage = NoLineage

\* "Calculate next turn" of make_pick and undo_pick: the result of
\* calculateNextTurn(roomState) is stored in the room
RecomputeTurn(roomCode) ==
    /\ roomCode \in DOMAIN draftRooms
    /\ draftRooms' = SetRoom(roomCode, withNextTurn(draftRooms[roomCode]))
    /\ UNCHANGED <<roomOrder, connected, channels, timers, emitted, view, generating, lineage>>

NextTurn == \E roomCode \in DraftCodes : RecomputeTurn(roomCode)

SpecTurn == InitTurn /\ [][NextTurn]_vars

(***************************************************************************)
(* The life of the rooms: two connections, both room codes, every invalid  *)
(* kind of settings, one player to pick, and up to MaxRoomTimers pending   *)
(* cleanup timers.                                                         *)
(***************************************************************************)
RoomSettings == {MkSettings(1, 1, 0, FALSE, 100)} \cup InvalidSettings

RoomPickInputs == [playerId : {1}, teamId : {0}, position : {"F"}, shape : {"ok"}]

RoomCodeInputs == {"A", "b", "Z"}

NextRooms ==
    \/ \E s \in Sockets : Connect(s) /\ UNCHANGED <<view, generating, lineage>>
    \/ \E s \in Sockets, settings \in RoomSettings, roomCode \in AllCodes :
          StartDraft(s, settings, roomCode) /\ UNCHANGED <<view, generating, lineage>>
    \/ \E s \in Sockets, roomCode \in RoomCodeInputs :
          JoinDraft(s, roomCode) /\ UNCHANGED <<view, generating, lineage>>
    \/ \E s \in Sockets, roomCode \in AllCodes, pickData \in RoomPickInputs :
          MakePick(s, roomCode, pickData) /\ UNCHANGED <<view, generating, lineage>>
    \/ \E s \in Sockets, roomCode \in RoomCodeInputs :
          LeaveDraft(s, roomCode) /\ Len(timers') <= MaxRoomTimers /\ UNCHANGED <<view, generating, lineage>>
    \/ \E s \in Sockets : Disconnect(s) /\ Len(timers') <= MaxRoomTimers /\ UNCHANGED <<view, generating, lineage>>
    \/ \E i \in 1..MaxRoomTimers : TimerFire(i) /\ UNCHANGED <<view, generating, lineage>>

SpecRooms == Init /\ [][NextRooms]_vars

\* a pending timer fires once its delay has elapsed
SpecRoomsFair ==
    SpecRooms /\ WF_vars(\E i \in 1..MaxRoomTimers : TimerFire(i) /\ UNCHANGED <<view, generating, lineage>>)

(***************************************************************************)
(* Two rooms side by side: one connection, both room codes, two different  *)
(* settings, every operation.                                              *)
(***************************************************************************)
FrameSockets == {"s1"}

FrameSettings == {MkSettings(1, 1, 0, FALSE, 100), MkSettings(2, 1, 0, TRUE, 50)}

FramePickInputs ==
    [playerId : PlayerIds, teamId : {0, 1}, position : {"F"}, shape : {"ok"}]

FrameNameInputs == {"", " Ann "}

NextFrame ==
    \/ \E s \in FrameSockets : Connect(s) /\ UNCHANGED <<view, generating, lineage>>
    \/ \E s \in FrameSockets, settings \in FrameSettings, roomCode \in AllCodes :
          StartDraft(s, settings, roomCode) /\ UNCHANGED <<view, generating, lineage>>
    \/ \E s \in FrameSockets, roomCode \in AllCodes :
          JoinDraft(s, roomCode) /\ UNCHANGED <<view, generating, lineage>>
    \/ \E s \in FrameSockets, roomCode \in AllCodes, pickData \in FramePickInputs :
          MakePick(s, roomCode, pickData) /\ UNCHANGED <<view, generating, lineage>>
    \/ \E s \in FrameSockets, roomCode \in AllCodes :
          UndoPick(s, roomCode) /\ UNCHANGED <<view, generating, lineage>>
    \/ \E s \in FrameSockets, roomCode \in AllCodes, teamId \in {0, 1},
          newName \in FrameNameInputs :
          UpdateTableName(s, roomCode, teamId, newName) /\ UNCHANGED <<view, generating, lineage>>
    \/ \E s \in FrameSockets, roomCode \in AllCodes :
          /\ LeaveDraft(s, roomCode)
          /\ Len(timers') <= MaxTimers
          /\ UNCHANGED <<view, generating, lineage>>
    \/ \E s \in FrameSockets :
          Disconnect(s) /\ Len(timers') <= MaxTimers /\ UNCHANGED <<view, generating, lineage>>
    \/ \E i \in 1..MaxTimers : TimerFire(i) /\ UNCHANGED <<view, generating, lineage>>

SpecFrame == Init /\ [][NextFrame]_vars

(***************************************************************************)
(* Reuse of a room code: one code, up to MaxRoomsPerCode rooms created     *)
(* under it one after the other, up to MaxRoomTimers pending timers, with  *)
(* the lineage of rooms and timers recorded.                               *)
(***************************************************************************)
\* the lineage once the step has run: a created room is counted, a timer
\* that was set gets the number of the room it was set for
lineageAfterStart(roomCode) ==
    IF roomCode \notin DOMAIN draftRooms /\ roomCode \in DOMAIN draftRooms'
    THEN [lineage EXCEPT !.born[roomCode] = @ + 1]
    ELSE lineage

lineageAfterLeave ==
    [lineage EXCEPT !.scheduledFor =
        @ \o [k \in 1..(Len(timers') - Len(timers)) |->
                 lineage.born[timers'[Len(timers) + k].roomCode]]]

lineageAfterTimer(i) ==
    [lineage EXCEPT !.scheduledFor =
        SubSeq(@, 1, i - 1) \o SubSeq(@, i + 1, Len(@))]

ReuseSettings == {MkSettings(1, 1, 0, FALSE, 100)}

NextReuse ==
    \/ \E s \in Sockets : Connect(s) /\ UNCHANGED <<view, generating, lineage>>
    \/ \E s \in Sockets, settings \in ReuseSettings, roomCode \in DraftCodes :
          /\ lineage.born[roomCode] < MaxRoomsPerCode
          /\ StartDraft(s, settings, roomCode)
          /\ lineage' = lineageAfterStart(roomCode)
          /\ UNCHANGED <<view, generating>>
    \/ \E s \in Sockets, roomCode \in DraftCodes :
          JoinDraft(s, roomCode) /\ UNCHANGED <<view, generating, lineage>>
    \/ \E s \in Sockets, roomCode \in DraftCodes :
          /\ LeaveDraft(s, roomCode)
          /\ Len(timers') <= MaxRoomTimers
          /\ lineage' = lineageAfterLeave
          /\ UNCHANGED <<view, generating>>
    \/ \E s \in Sockets :
          /\ Disconnect(s)
          /\ Len(timers') <= MaxRoomTimers
          /\ lineage' = lineageAfterLeave
          /\ UNCHANGED <<view, generating>>
    \/ \E i \in 1..MaxRoomTimers :
          /\ TimerFire(i)
          /\ lineage' = lineageAfterTimer(i)
          /\ UNCHANGED <<view, generating>>

SpecReuse == Init /\ [][NextReuse]_vars

(***************************************************************************)
(* The resampling loop of generateRoomCode, one sample per step.  While    *)
(* the loop runs no other handler does: the loop never yields to the event *)
(* loop.                                                                   *)
(***************************************************************************)
\* a sampler that only ever draws the code "A"
SampleCodesStuck(universe) == {"A"}

\* the codes one pass of the for loop over Math.random() can build
SampleCodes(universe) == universe

\* start_draft with valid settings reaches generateRoomCode()
BeginStart(s, settings) ==
    /\ generating = <<>>
    /\ s \in connected
    /\ StartValidationError(settings) = NoError
    /\ generating' = <<[socket |-> s, settings |-> settings, result |-> ""]>>
    /\ UNCHANGED <<draftRooms, roomOrder, connected, channels, timers, emitted, view, lineage>>

\* one pass of do { result = ... } : entered the first time, and again
\* while (draftRooms.has(result))
Sample(code) ==
    /\ generating # <<>>
    /\ generating[1].result = "" \/ generating[1].result \in DOMAIN draftRooms
    /\ code \in SampleCodes(AllCodes)
    /\ generating' = <<[generating[1] EXCEPT !.result = code]>>
    /\ UNCHANGED <<draftRooms, roomOrder, connected, channels, timers, emitted, view, lineage>>

\* the loop ends with a code that is no key of draftRooms; the rest of
\* start_draft runs with it
FinishStart ==
    /\ generating # <<>>
    /\ generating[1].result # ""
    /\ generating[1].result \notin DOMAIN draftRooms
    /\ StartDraft(generating[1].socket, generating[1].settings, generating[1].result)
    /\ generating' = <<>>
    /\ UNCHANGED <<view, lineage>>

CodeSettings == {MkSettings(1, 1, 0, FALSE, 100)}

NextCodes ==
    \/ \E s \in Sockets :
          generating = <<>> /\ Connect(s) /\ UNCHANGED <<view, generating, lineage>>
    \/ \E s \in Sockets, settings \in CodeSettings : BeginStart(s, settings)
    \/ \E code \in AllCodes : Sample(code)
    \/ FinishStart
    \/ \E s \in Sockets, roomCode \in AllCodes :
          /\ generating = <<>>
          /\ JoinDraft(s, roomCode)
          /\ UNCHANGED <<view, generating, lineage>>
    \/ \E s \in Sockets, roomCode \in AllCodes :
          /\ generating = <<>>
          /\ LeaveDraft(s, roomCode)
          /\ Len(timers') <= MaxTimers
          /\ UNCHANGED <<view, generating, lineage>>
    \/ \E i \in 1..MaxTimers :
          generating = <<>> /\ TimerFire(i) /\ UNCHANGED <<view, generating, lineage>>

SpecCodes == Init /\ [][NextCodes]_vars

\* fair sampling: a code that can be drawn is eventually drawn, and the
\* handler goes on once the loop condition is false
SpecCodesFair ==
    /\ SpecCodes
    /\ \A code \in AllCodes : WF_vars(Sample(code))
    /\ WF_vars(FinishStart)

(***************************************************************************)
(* The client script: the listeners of the page behind a connection.       *)
(* attemptingRejoin is true only between the load of a page and the first  *)
(* answer to its join_draft, while currentRoomCode is null; the listeners  *)
(* then act as they do for a null currentRoomCode, so it is left out.      *)
(***************************************************************************)
\* socket.on('draft_started'): currentRoomCode = roomCode, then
\* renderUIFromServerState sets currentServerState
onDraftStarted(v, m) ==
    [currentRoomCode |-> m.roomCode, currentServerState |-> m.draftState]

\* socket.on('draft_state_update')
onDraftStateUpdate(v, m) ==
    IF m.draftState = <<>> \/ m.roomCode # m.draftState[1].roomCode
    THEN v
    ELSE IF v.currentRoomCode = ""
    THEN [currentRoomCode |-> m.draftState[1].roomCode,
          currentServerState |-> m.draftState]
    ELSE IF m.roomCode = v.currentRoomCode
    THEN [v EXCEPT !.currentServerState = m.draftState]
    ELSE v

\* a participant_update listener that leaves the page as it is
onParticipantUpdateIgnored(v, m) == v

\* socket.on('participant_update')
onParticipantUpdate(v, m) ==
    IF m.roomCode = v.currentRoomCode /\ v.currentServerState # <<>>
    THEN [v EXCEPT !.currentServerState[1].participants = m.participants[1]]
    ELSE v

\* the listener of the event of message m; join_error ends on the start
\* screen, pick_error and error leave the state of the page as it is
receive(v, m) ==
    CASE m.event = "draft_started" -> onDraftStarted(v, m)
      [] m.event = "draft_state_update" -> onDraftStateUpdate(v, m)
      [] m.event = "participant_update" -> onParticipantUpdate(v, m)
      [] m.event = "join_error" -> StartScreen
      [] OTHER -> v

\* the listeners run on the messages of one handler; a handler sends a
\* connection at most one message per room
RECURSIVE receiveAll(_, _)
receiveAll(v, msgs) ==
    IF msgs = {} THEN v
    ELSE LET m == CHOOSE x \in msgs : TRUE
         IN  receiveAll(receive(v, m), msgs \ {m})

\* the pages once the messages of the running handler are delivered; the
\* page of a connection that dropped is back on the start screen
\* (socket.on("disconnect"))
Delivered ==
    [s \in Sockets |->
        IF s \in connected'
        THEN receiveAll(view[s], {m \in emitted' : m.to = s})
        ELSE StartScreen]

\* handleConfirmTableNamesClick, reached from the start screen: start_draft
ClientStart(s, settings, roomCode) ==
    /\ view[s].currentRoomCode = ""
    /\ StartDraft(s, settings, roomCode)
    /\ view' = Delivered
    /\ UNCHANGED <<generating, lineage>>

\* handleJoinDraftClick on the start screen, and attemptRejoinOnLoad
ClientJoin(s, roomCode) ==
    /\ view[s].currentRoomCode = ""
    /\ JoinDraft(s, roomCode)
    /\ view' = Delivered
    /\ UNCHANGED <<generating, lineage>>

\* handlePlayerOptionMouseDown: make_pick for the current room
ClientPick(s, pickData) ==
    /\ view[s].currentRoomCode # ""
    /\ MakePick(s, view[s].currentRoomCode, pickData)
    /\ view' = Delivered
    /\ UNCHANGED <<generating, lineage>>

\* handleUndoClick: undo_pick for the current room when the page shows a pick
ClientUndo(s) ==
    /\ view[s].currentRoomCode # ""
    /\ view[s].currentServerState # <<>>
    /\ Len(view[s].currentServerState[1].picks) > 0
    /\ UndoPick(s, view[s].currentRoomCode)
    /\ view' = Delivered
    /\ UNCHANGED <<generating, lineage>>

\* handleTableNameEdit: update_table_name for a team of the current room
ClientRename(s, teamId, newName) ==
    /\ view[s].currentRoomCode # ""
    /\ view[s].currentServerState # <<>>
    /\ teamId \in DOMAIN view[s].currentServerState[1].settings.tableNames
    /\ UpdateTableName(s, view[s].currentRoomCode, teamId, newName)
    /\ view' = Delivered
    /\ UNCHANGED <<generating, lineage>>

\* handleConfirmExit: leave_draft for the current room, then showStartScreen
ClientExit(s) ==
    /\ view[s].currentRoomCode # ""
    /\ LeaveDraft(s, view[s].currentRoomCode)
    /\ view' = [Delivered EXCEPT ![s] = StartScreen]
    /\ UNCHANGED <<generating, lineage>>

ClientSettings ==
    {MkSettings(1, 1, 1, TRUE, 100), MkSettings(2, 1, 0, FALSE, 100)}

ClientPickInputs ==
    [playerId : PlayerIds, teamId : {0, 1}, position : {"F", "D"}, shape : {"ok"}]

ClientTeamInputs == {0}

ClientNameInputs == {"", "  ", " Ann "}

ClientCodeInputs == {"A", "Z"}

NextClients ==
    \/ \E s \in Sockets : Connect(s) /\ view' = Delivered /\ UNCHANGED <<generating, lineage>>
    \/ \E s \in Sockets, settings \in ClientSettings, roomCode \in DraftCodes :
          ClientStart(s, settings, roomCode)
    \/ \E s \in Sockets, roomCode \in ClientCodeInputs : ClientJoin(s, roomCode)
    \/ \E s \in Sockets, pickData \in ClientPickInputs : ClientPick(s, pickData)
    \/ \E s \in Sockets : ClientUndo(s)
    \/ \E s \in Sockets, teamId \in ClientTeamInputs, newName \in ClientNameInputs :
          ClientRename(s, teamId, newName)
    \/ \E s \in Sockets : ClientExit(s) /\ Len(timers') <= MaxTimers
    \/ \E s \in Sockets : Disconnect(s) /\ Len(timers') <= MaxTimers /\ view' = Delivered
          /\ UNCHANGED <<generating, lineage>>
    \/ \E i \in 1..MaxTimers : TimerFire(i) /\ UNCHANGED <<view, generating, lineage>>

SpecClients == Init /\ [][NextClients]_vars

(***************************************************************************)
(* Properties.                                                             *)
(***************************************************************************)
LiveRooms == DOMAIN draftRooms

totalSlotsOf(roomState) ==
    roomState.settings.numTables * totalSlotsPerTable(roomState.settings.playersPerPos)

\* a step in which room c accepted a pick: its picks grew by one
PickAccepted(c) ==
    /\ c \in DOMAIN draftRooms
    /\ c \in DOMAIN draftRooms'
    /\ Len(draftRooms'[c].picks) = Len(draftRooms[c].picks) + 1

sameDraft(r1, r2) ==
    /\ r1.picks = r2.picks
    /\ r1.selectedPlayerIds = r2.selectedPlayerIds
    /\ r1.nextTableToPick = r2.nextTableToPick
    /\ r1.currentPickDirection = r2.currentPickDirection

IsRejection(m) == m.event \in {"error", "pick_error", "join_error"}

\* C1: whenever a room accepts a pick, an undo_pick of the resulting room
\* gives back the picks, selectedPlayerIds, nextTableToPick and
\* currentPickDirection the room had before the pick.
UndoExactness ==
    [][\A c \in AllCodes :
          PickAccepted(c) => sameDraft(roomAfterUndo(draftRooms'[c]), draftRooms[c])]_vars

\* C2: a room whose nextTableToPick is -1 accepts no further pick: no step
\* lengthens its picks.
CompleteRoomRejectsPicks ==
    [][\A c \in AllCodes :
          (c \in DOMAIN draftRooms /\ draftRooms[c].nextTableToPick = -1)
              => ~PickAccepted(c)]_vars

\* C3: in every room nextTableToPick is -1 exactly when the number of
\* picks equals numTables times the slots per team, and is a team index in
\* [0, numTables) otherwise.
CompleteIffAllSlotsPicked ==
    \A c \in LiveRooms :
        LET r == draftRooms[c]
        IN  /\ r.nextTableToPick = -1 <=> Len(r.picks) = totalSlotsOf(r)
            /\ r.nextTableToPick # -1 =>
                   r.nextTableToPick \in 0..(r.settings.numTables - 1)

\* C4: in every room, for every team and position, the number of stored
\* picks of that team at that position is at most playersPerPos[position],
\* and every stored pick is at one of the positions F, D, G.
CapacityRespected ==
    \A c \in LiveRooms :
        LET r == draftRooms[c]
        IN  \A i \in 1..Len(r.picks) :
                /\ r.picks[i].position \in {"F", "D", "G"}
                /\ currentCountForPos(r.picks, r.picks[i].teamId, r.picks[i].position)
                       <= r.settings.playersPerPos[r.picks[i].position]

\* a capacity rejection was just sent about a room in which some team holds
\* all the slots of a position
CapacityWitness ==
    /\ \E m \in emitted : m.message.text = "All slots are already filled for"
    /\ \E c \in LiveRooms : \E i \in 1..Len(draftRooms[c].picks) :
          LET r == draftRooms[c]
          IN  currentCountForPos(r.picks, r.picks[i].teamId, r.picks[i].position)
                  = r.settings.playersPerPos[r.picks[i].position]

\* C5: in every room selectedPlayerIds has as many elements as picks.
SelectedSizeIsPickCount ==
    \A c \in LiveRooms :
        Len(draftRooms[c].selectedPlayerIds) = Len(draftRooms[c].picks)

\* a serpentine room of one team that holds one pick and whose direction
\* is forward again: the state an undo of the second pick leaves, just
\* broadcast
SelectedSizeWitness ==
    \E c \in LiveRooms :
        /\ draftRooms[c].settings.isSerpentineOrder
        /\ draftRooms[c].settings.numTables = 1
        /\ Len(draftRooms[c].picks) = 1
        /\ Len(draftRooms[c].selectedPlayerIds) = 1
        /\ draftRooms[c].currentPickDirection = 1
        /\ \E m \in emitted :
              /\ m.event = "draft_state_update"
              /\ m.draftState # <<>>
              /\ Len(m.draftState[1].picks) = 1

\* C6: in every room no two stored picks name the same player.
NoPlayerPickedTwice ==
    \A c \in LiveRooms :
        LET picks == draftRooms[c].picks
        IN  \A i, j \in 1..Len(picks) :
                picks[i].playerId = picks[j].playerId => i = j

\* a duplicate rejection was just sent while a room holds the player
DuplicateWitness ==
    /\ \E m \in emitted : m.message.text = "Player already selected."
    /\ \E c \in LiveRooms : Len(draftRooms[c].picks) >= 1

\* C7: whenever a room accepts a pick, the pick is appended to picks and
\* its teamId is the room's nextTableToPick of before the step.
PickIsByTeamOnTurn ==
    [][\A c \in AllCodes :
          PickAccepted(c) =>
              /\ draftRooms'[c].picks[Len(draftRooms'[c].picks)].teamId
                     = draftRooms[c].nextTableToPick
              /\ Pop(draftRooms'[c].picks) = draftRooms[c].picks]_vars

\* an out-of-turn rejection was just sent in a room that holds a pick
OutOfTurnWitness ==
    /\ \E m \in emitted : m.message.text = "It's not this team's turn."
    /\ \E c \in LiveRooms :
          /\ Len(draftRooms[c].picks) >= 1
          /\ draftRooms[c].nextTableToPick >= 0

Min(a, b) == IF a <= b THEN a ELSE b

\* C8: without undo, in a room that is not serpentine the i-th pick is by
\* team (i-1) mod numTables, and until the draft is complete
\* nextTableToPick is (number of picks) mod numTables.
RoundRobinOrder ==
    \A c \in LiveRooms :
        LET r == draftRooms[c]
            n == r.settings.numTables
        IN  ~r.settings.isSerpentineOrder =>
              /\ \A i \in 1..Min(Len(r.picks), totalSlotsOf(r)) :
                    r.picks[i].teamId = (i - 1) % n
              /\ Len(r.picks) < totalSlotsOf(r) => r.nextTableToPick = Len(r.picks) % n
              /\ Len(r.picks) >= totalSlotsOf(r) => r.nextTableToPick = -1

\* a room of three teams, not serpentine, in its second round
RoundRobinWitness ==
    \E c \in LiveRooms :
        /\ ~draftRooms[c].settings.isSerpentineOrder
        /\ draftRooms[c].settings.numTables = 3
        /\ Len(draftRooms[c].picks) = 4
        /\ draftRooms[c].nextTableToPick = 1

\* the team of pick number k (from 0) and the direction of its round in
\* snake order
SnakeTeam(k, n) == IF (k \div n) % 2 = 0 THEN k % n ELSE n - 1 - (k % n)
SnakeDirection(k, n) == IF (k \div n) % 2 = 0 THEN 1 ELSE -1

\* C9: without undo, in a serpentine room the i-th pick is by the team of
\* snake order (round r runs 0..N-1 for even r and N-1..0 for odd r), and
\* until the draft is complete nextTableToPick and currentPickDirection are
\* the team and the direction of the next pick in snake order; afterwards
\* nextTableToPick is -1.
SerpentineOrder ==
    \A c \in LiveRooms :
        LET r == draftRooms[c]
            n == r.settings.numTables
        IN  r.settings.isSerpentineOrder =>
              /\ \A i \in 1..Min(Len(r.picks), totalSlotsOf(r)) :
                    r.picks[i].teamId = SnakeTeam(i - 1, n)
              /\ Len(r.picks) < totalSlotsOf(r) =>
                    /\ r.nextTableToPick = SnakeTeam(Len(r.picks), n)
                    /\ r.currentPickDirection = SnakeDirection(Len(r.picks), n)
              /\ Len(r.picks) >= totalSlotsOf(r) => r.nextTableToPick = -1

\* the serpentine room of 2 teams and {F:2} after its picks 0,1,1,0
SerpentineWitness ==
    \E c \in LiveRooms :
        /\ draftRooms[c].settings.isSerpentineOrder
        /\ draftRooms[c].settings.numTables = 2
        /\ draftRooms[c].settings.playersPerPos["F"] = 2
        /\ Len(draftRooms[c].picks) = 4
        /\ draftRooms[c].picks[2].teamId = 1
        /\ draftRooms[c].picks[3].teamId = 1
        /\ draftRooms[c].picks[4].teamId = 0
        /\ draftRooms[c].nextTableToPick = -1

\* the step is the handling of a request of s that the server rejects:
\* a make_pick that fails a validation check, an undo_pick of an unknown
\* room or of a room without picks, an update_table_name of an unknown room
\* or team, a join_draft of an unknown code
RejectedRequest(s) ==
    /\ s \in connected
    /\ \/ /\ \E m \in emitted' : m.event = "pick_error"
          /\ \/ \E roomCode \in DraftCodes, pickData \in PickInputs :
                   /\ PickValidationError(roomCode, pickData) # NoError
                   /\ MakePick(s, roomCode, pickData)
             \/ \E roomCode \in UnknownCodes :
                   MakePick(s, roomCode, [playerId |-> 1, teamId |-> 0,
                                          position |-> "F", shape |-> "ok"])
       \/ /\ \E m \in emitted' : m.event = "error"
          /\ \/ \E roomCode \in DraftCodes \cup UnknownCodes :
                   /\ roomCode \in DOMAIN draftRooms =>
                          Len(draftRooms[roomCode].picks) = 0
                   /\ UndoPick(s, roomCode)
             \/ \E roomCode \in DraftCodes \cup UnknownCodes,
                   teamId \in RenameTeamInputs, newName \in NameInputs :
                   /\ roomCode \in DOMAIN draftRooms =>
                          teamId \notin 0..(draftRooms[roomCode].settings.numTables - 1)
                   /\ UpdateTableName(s, roomCode, teamId, newName)
       \/ /\ \E m \in emitted' : m.event = "join_error"
          /\ \E roomCode \in JoinCodeInputs :
                /\ TrimUpper(roomCode) \notin DOMAIN draftRooms
                /\ JoinDraft(s, roomCode)

isEmpty(c) == c \in DOMAIN draftRooms /\ Len(draftRooms[c].participants) = 0

\* room c is removed from the registry by the step
Removed(c) == c \in DOMAIN draftRooms /\ c \notin DOMAIN draftRooms'

\* C11: a timer scheduled by a disconnect (the connection leaves connected)
\* has the delay ROOM_CLEANUP_DELAY_SHORT, a timer scheduled by a
\* leave_draft has the delay ROOM_CLEANUP_DELAY_LONG.
GraceDelaySelection ==
    [][\A i \in (Len(timers) + 1)..Len(timers') :
          timers'[i].delay = IF connected' # connected
                             THEN ROOM_CLEANUP_DELAY_SHORT
                             ELSE ROOM_CLEANUP_DELAY_LONG]_vars

\* C12: a room is removed only when it has no participant, and the firing
\* of a timer leaves every room that has a participant as it is.
NoRemovalWhileOccupied ==
    [][\A c \in AllCodes :
          /\ Removed(c) => Len(draftRooms[c].participants) = 0
          /\ (c \in DOMAIN draftRooms /\ ~isEmpty(c) /\ Len(timers') < Len(timers))
                 => (c \in DOMAIN draftRooms' /\ draftRooms'[c] = draftRooms[c])]_vars

\* the timer of a room that holds a pick just fired and found a participant
CancelledCleanupWitness ==
    \E m \in emitted :
        /\ m.event = "cleanup_cancelled"
        /\ m.roomCode \in LiveRooms
        /\ Len(draftRooms[m.roomCode].participants) >= 1
        /\ Len(draftRooms[m.roomCode].picks) = 1
        /\ draftRooms[m.roomCode].nextTableToPick = -1

\* the timers without the i-th
WithoutTimer(i) == SubSeq(timers, 1, i - 1) \o SubSeq(timers, i + 1, Len(timers))

\* C13: when a room is removed, the timer that fires is the one of the
\* room's latest emptying: no timer scheduled later for the same room is
\* still pending.
RemovalAfterLatestGrace ==
    [][\A c \in AllCodes : \A i \in 1..Len(timers) :
          (Removed(c) /\ canFire(i) /\ timers[i].roomCode = c /\ timers' = WithoutTimer(i))
              => \A j \in (i + 1)..Len(timers) : timers[j].roomCode # c]_vars

\* C14: a room without participants is eventually removed from the
\* registry, unless a participant joins it first (pending timers
\* eventually fire).
EmptyRoomEventuallyRemoved ==
    \A c \in AllCodes :
        isEmpty(c) ~> (c \notin DOMAIN draftRooms \/ ~isEmpty(c))

\* a timer just removed a room: its code is no key of the registry
RemovedRoomWitness ==
    \E m \in emitted :
        /\ m.event = "cleanup_removed"
        /\ m.roomCode \notin DOMAIN draftRooms
        /\ m.roomCode \notin Range(roomOrder)

inRoom(s, rooms, c) == c \in DOMAIN rooms /\ SetHas(rooms[c].participants, s)

\* the step handles a leave_draft of s that names a room s is in, or the
\* disconnect of s
LeftOrDisconnected(s) ==
    /\ s \in connected
    /\ \/ s \notin connected'
       \/ \E roomCode \in RoomCodeInputs :
             /\ inRoom(s, draftRooms, TrimUpper(roomCode))
             /\ LeaveDraft(s, roomCode)

\* C15: after the handling of a leave_draft or of the disconnect of s, no
\* room has s among its participants.
LeaveRemovesFromEveryRoom ==
    [][\A s \in Sockets :
          LeftOrDisconnected(s) =>
              \A c \in AllCodes : ~inRoom(s, draftRooms', c)]_vars

\* every key of the registry occurs once in the order of the keys, and
\* every room carries its key as roomCode
KeysUnique(rooms, order) ==
    /\ Range(order) = DOMAIN rooms
    /\ \A i, j \in 1..Len(order) : order[i] = order[j] => i = j
    /\ \A c \in DOMAIN rooms : rooms[c].roomCode = c

\* C16: the code under which start_draft stores a room is not the key of a
\* live room, and the step leaves every live room as it is; no two live
\* rooms share a code.
RoomCodeUniqueness ==
    [][/\ KeysUnique(draftRooms', roomOrder')
       /\ \A m \in emitted' :
             m.event = "draft_started" =>
                 /\ m.roomCode \notin DOMAIN draftRooms
                 /\ DOMAIN draftRooms' = DOMAIN draftRooms \cup {m.roomCode}
                 /\ \A c \in DOMAIN draftRooms : draftRooms'[c] = draftRooms[c]]_vars

\* a room was just started while another room, which holds a pick, is live
SecondRoomWitness ==
    \E m \in emitted :
        /\ m.event = "draft_started"
        /\ \E c \in LiveRooms \ {m.roomCode} : Len(draftRooms[c].picks) = 1
        /\ m.roomCode \in LiveRooms
        /\ Len(draftRooms[m.roomCode].picks) = 0

\* the settings start_draft has to refuse: fewer than one team, a position
\* count that is negative or not a number, no slot at all, a negative cap
SettingsInvalid(settings) ==
    \/ settings.numTables < 1
    \/ \E pos \in {"F", "D", "G"} :
          settings.notNumber = pos \/ settings.playersPerPos[pos] < 0
    \/ \A pos \in {"F", "D", "G"} : settings.playersPerPos[pos] = 0
    \/ settings.maxSalary < 0

\* C17: a start_draft with invalid settings adds no room, changes no room
\* and sends one message, an error, to the requesting connection.
InvalidSettingsRejected ==
    [][(\E m \in emitted' : m.event \in {"error", "draft_started"}) =>
          \A s \in connected, settings \in RoomSettings :
              (/\ SettingsInvalid(settings)
               /\ \E roomCode \in AllCodes : StartDraft(s, settings, roomCode))
                  => /\ UNCHANGED <<draftRooms, roomOrder, connected, channels, timers>>
                     /\ Cardinality(emitted') = 1
                     /\ \A m \in emitted' : m.to = s /\ m.event = "error"]_vars

\* the error for a negative cap was just sent to a connection while a room
\* of the other connection is live
InvalidSettingsWitness ==
    \E m \in emitted : \E c \in LiveRooms :
        /\ m.message.text = "Invalid maximum salary provided."
        /\ draftRooms[c].participants # <<>>
        /\ ~SetHas(draftRooms[c].participants, m.to)

\* C18: a start_draft with valid settings stores, under a new code, a room
\* without picks and selected players, with nextTableToPick 0,
\* currentPickDirection 1 and the creator as only participant, and sends
\* one message, draft_started with the code and this state, to the creator.
StartCreatesFreshRoom ==
    [][(\E m \in emitted' : m.event \in {"error", "draft_started"}) =>
       \A s \in connected, settings \in RoomSettings, roomCode \in AllCodes :
          (~SettingsInvalid(settings) /\ StartDraft(s, settings, roomCode))
              => /\ roomCode \notin DOMAIN draftRooms
                 /\ roomCode \in DOMAIN draftRooms'
                 /\ draftRooms'[roomCode].settings = settings
                 /\ draftRooms'[roomCode].picks = <<>>
                 /\ draftRooms'[roomCode].selectedPlayerIds = <<>>
                 /\ draftRooms'[roomCode].nextTableToPick = 0
                 /\ draftRooms'[roomCode].currentPickDirection = 1
                 /\ draftRooms'[roomCode].participants = <<s>>
                 /\ Cardinality(emitted') = 1
                 /\ \A m \in emitted' :
                       /\ m.to = s
                       /\ m.event = "draft_started"
                       /\ m.roomCode = roomCode
                       /\ m.draftState # <<>>
                       /\ m.draftState[1].picks = <<>>
                       /\ m.draftState[1].selectedPlayerIds = <<>>
                       /\ m.draftState[1].nextTableToPick = 0
                       /\ m.draftState[1].currentPickDirection = 1
                       /\ m.draftState[1].participants = <<s>>
                       /\ m.draftState[1].settings = settings]_vars

\* a room was just started by one connection while the other connection
\* is in another room: the one message went to the creator
FreshRoomWitness ==
    \E m \in emitted : \E c \in LiveRooms, s \in connected :
        /\ m.event = "draft_started"
        /\ emitted = {m}
        /\ s # m.to
        /\ c # m.roomCode
        /\ draftRooms[c].participants = <<s>>
        /\ draftRooms[m.roomCode].participants = <<m.to>>

\* the message carries the whole state of the room: settings, picks,
\* selected ids, turn pointer and participants
CarriesFullState(m, c, roomState) ==
    /\ m.roomCode = c
    /\ m.draftState # <<>>
    /\ m.draftState[1].settings = roomState.settings
    /\ m.draftState[1].picks = roomState.picks
    /\ m.draftState[1].selectedPlayerIds = roomState.selectedPlayerIds
    /\ m.draftState[1].nextTableToPick = roomState.nextTableToPick
    /\ m.draftState[1].currentPickDirection = roomState.currentPickDirection
    /\ m.draftState[1].participants = roomState.participants

\* the socket.io channel of every live room holds the room's participants
ChannelsAreParticipants ==
    \A c \in LiveRooms : channels[c] = Range(draftRooms[c].participants)

\* C19: a join_draft with the code of a live room adds the joiner to the
\* participants of that room and changes nothing else, sends the joiner
\* one draft_state_update with the whole state of the room, and sends every
\* other connection that was a participant one participant_update with the
\* new list, and nothing to anyone else; with an unknown code it changes no
\* room and sends one join_error to the joiner.
JoinBehaviour ==
    [][(\E m \in emitted' : m.event \in {"join_error", "draft_state_update"}) =>
       \A s \in connected, roomCode \in RoomCodeInputs :
          JoinDraft(s, roomCode) =>
              LET c == TrimUpper(roomCode)
              IN  IF c \in DOMAIN draftRooms
                  THEN /\ DOMAIN draftRooms' = DOMAIN draftRooms
                       /\ \A d \in DOMAIN draftRooms \ {c} : draftRooms'[d] = draftRooms[d]
                       /\ draftRooms'[c] =
                              [draftRooms[c] EXCEPT !.participants = SetAdd(@, s)]
                       /\ inRoom(s, draftRooms', c)
                       /\ \E m \in emitted' :
                             /\ m.to = s
                             /\ m.event = "draft_state_update"
                             /\ CarriesFullState(m, c, draftRooms'[c])
                       /\ \A r \in Range(draftRooms[c].participants) \ {s} :
                             \E m \in emitted' :
                                 /\ m.to = r
                                 /\ m.event = "participant_update"
                                 /\ m.roomCode = c
                                 /\ m.participants = <<draftRooms'[c].participants>>
                       /\ Cardinality(emitted') =
                              1 + Cardinality(Range(draftRooms[c].participants) \ {s})
                  ELSE /\ UNCHANGED <<draftRooms, roomOrder, connected, channels, timers>>
                       /\ Cardinality(emitted') = 1
                       /\ \A m \in emitted' : m.to = s /\ m.event = "join_error"]_vars

\* a connection just joined a room that holds a pick: it was sent the
\* state and the participant that was in the room was sent the new list
JoinWitness ==
    \E c \in LiveRooms : \E s, r \in connected :
        /\ draftRooms[c].participants = <<r, s>>
        /\ Len(draftRooms[c].picks) = 1
        /\ \E m \in emitted : m.to = s /\ m.event = "draft_state_update"
        /\ \E m \in emitted : m.to = r /\ m.event = "participant_update"

\* the step is an accepted pick, an accepted undo or an accepted rename
\* in room c
Mutated(c) ==
    /\ c \in DOMAIN draftRooms
    /\ c \in DOMAIN draftRooms'
    /\ \/ draftRooms'[c].picks # draftRooms[c].picks
       \/ \E s \in connected, teamId \in RenameTeamInputs, newName \in NameInputs :
             /\ teamId \in 0..(draftRooms[c].settings.numTables - 1)
             /\ UpdateTableName(s, c, teamId, newName)

\* C20: the step of an accepted pick, undo or rename in a room sends every
\* participant of the room one draft_state_update that carries the whole
\* state of the room after the step, and sends nothing to anyone else.
BroadcastAfterMutation ==
    [][\A c \in DraftCodes :
          Mutated(c) =>
              /\ \A r \in Range(draftRooms'[c].participants) :
                    \E m \in emitted' : m.to = r
              /\ \A m \in emitted' :
                    /\ SetHas(draftRooms'[c].participants, m.to)
                    /\ m.event = "draft_state_update"
                    /\ CarriesFullState(m, c, draftRooms'[c])
              /\ Cardinality(emitted') = Len(draftRooms'[c].participants)]_vars

\* the state after an undo was just sent to the one participant of a room
\* while another connection, outside the room, got nothing
BroadcastWitness ==
    \E c \in LiveRooms : \E s, r \in connected :
        /\ draftRooms[c].participants = <<s>>
        /\ r # s
        /\ draftRooms[c].settings.playersPerPos["D"] = 1
        /\ Len(draftRooms[c].picks) = 1
        /\ draftRooms[c].currentPickDirection = 1
        /\ emitted # {}
        /\ \A m \in emitted :
              m.to = s /\ m.event = "draft_state_update"
                   /\ CarriesFullState(m, c, draftRooms[c])

(***************************************************************************)
(* The pages of the clients                                                *)
(***************************************************************************)
\* connection s is a participant of room c and its page shows room c
Viewing(s, c) ==
    /\ c \in DOMAIN draftRooms
    /\ SetHas(draftRooms[c].participants, s)
    /\ view[s].currentRoomCode = c

\* C21: once the messages of a handler are delivered, the page of every
\* participant that is viewing a room holds the room's picks, selected
\* player ids, nextTableToPick, currentPickDirection, team names and
\* participant list as the server has them.
ViewConsistency ==
    \A c \in DOMAIN draftRooms : \A s \in Sockets :
        Viewing(s, c) =>
            /\ view[s].currentServerState # <<>>
            /\ LET local == view[s].currentServerState[1]
                   roomState == draftRooms[c]
               IN  /\ local.picks = roomState.picks
                   /\ local.selectedPlayerIds = roomState.selectedPlayerIds
                   /\ local.nextTableToPick = roomState.nextTableToPick
                   /\ local.currentPickDirection = roomState.currentPickDirection
                   /\ local.settings.tableNames = roomState.settings.tableNames
                   /\ local.participants = roomState.participants

\* two connections view the same room after a join, a pick and a rename
ViewWitness ==
    \E c \in DOMAIN draftRooms : \E s, r \in Sockets :
        /\ s # r
        /\ Viewing(s, c)
        /\ Viewing(r, c)
        /\ Len(draftRooms[c].picks) = 1
        /\ draftRooms[c].settings.tableNames[0] = "Ann"
        /\ view[r].currentServerState[1].participants = <<s, r>>

(***************************************************************************)
(* update_table_name                                                       *)
(***************************************************************************)
\* the names that are blank or only whitespace
BlankNames == {"", "  "}

\* C22: update_table_name with a teamId in [0, numTables) sets the name of
\* that team, and of no other, to the trimmed new name, or to the default
\* "Team <teamId+1>" when the new name is blank or only whitespace, and sends
\* the whole state to the room; a teamId outside [0, numTables) is rejected
\* and changes nothing.
RenameBehaviour ==
    [][(\E m \in emitted' : m.event \in {"draft_state_update", "error"}) =>
       \A c \in DOMAIN draftRooms, s \in connected, teamId \in RenameTeamInputs,
          newName \in NameInputs :
          (/\ c \in DOMAIN draftRooms'
           /\ draftRooms'[c].picks = draftRooms[c].picks
           /\ draftRooms'[c].participants = draftRooms[c].participants
           /\ UpdateTableName(s, c, teamId, newName)) =>
              IF teamId \in 0..(draftRooms[c].settings.numTables - 1)
              THEN /\ draftRooms'[c].settings.tableNames[teamId] =
                         (IF newName \in BlankNames
                          THEN (CASE teamId = 0 -> "Team 1" [] teamId = 1 -> "Team 2")
                          ELSE Trim(newName))
                   /\ \A t \in DOMAIN draftRooms[c].settings.tableNames :
                         t # teamId =>
                             draftRooms'[c].settings.tableNames[t] =
                                 draftRooms[c].settings.tableNames[t]
                   /\ \A r \in Range(draftRooms'[c].participants) :
                         \E m \in emitted' :
                             /\ m.to = r
                             /\ m.event = "draft_state_update"
                             /\ CarriesFullState(m, c, draftRooms'[c])
              ELSE /\ draftRooms' = draftRooms
                   /\ \A m \in emitted' : m.to = s /\ m.event = "error"]_vars

\* a rename to " Ann " was just sent to the room as the name "Ann"
RenameWitness ==
    \E c \in LiveRooms :
        /\ draftRooms[c].settings.tableNames[0] = "Ann"
        /\ draftRooms[c].participants # <<>>
        /\ emitted # {}
        /\ \A m \in emitted :
              /\ m.event = "draft_state_update"
              /\ m.draftState[1].settings.tableNames[0] = "Ann"

(***************************************************************************)
(* The turn pointer                                                        *)
(***************************************************************************)
\* C23: in every room currentPickDirection is +1 or -1, completed rooms and
\* rooms after undos included.
DirectionIsUnit ==
    \A c \in DOMAIN draftRooms : draftRooms[c].currentPickDirection \in {1, -1}

\* a completed serpentine room whose direction was negated
DirectionWitness ==
    \E c \in DOMAIN draftRooms :
        /\ draftRooms[c].nextTableToPick = -1
        /\ draftRooms[c].currentPickDirection = -1

Fails(n, roomCode, pickData) ==
    IF n = 1 THEN roomCode \notin DOMAIN draftRooms
    ELSE IF n = 2 THEN pickData.shape # "ok"
    ELSE IF roomCode \notin DOMAIN draftRooms THEN FALSE
    ELSE LET roomState == draftRooms[roomCode]
         IN  CASE n = 3 -> pickData.teamId # roomState.nextTableToPick
               [] n = 4 -> pickData.playerId \in Range(roomState.selectedPlayerIds)
               [] n = 5 -> pickData.position \notin {"F", "D", "G"}
               [] n = 6 ->
                    /\ pickData.position \in {"F", "D", "G"}
                    /\ Cardinality({i \in 1..Len(roomState.picks) :
                           /\ roomState.picks[i].teamId = pickData.teamId
                           /\ roomState.picks[i].position = pickData.position})
                         >= roomState.settings.playersPerPos[pickData.position]

FailedChecks(roomCode, pickData) == {n \in 1..6 : Fails(n, roomCode, pickData)}

FirstOf(S) == CHOOSE n \in S : \A k \in S : n <= k

\* the text reported for each check
RejectionTexts ==
    <<"Draft room not found.", "Incomplete pick data received.",
      "It's not this team's turn.", "Player already selected.",
      "Invalid player position specified", "All slots are already filled for">>

\* the text of the payload check: a payload that is no object has its own
TextOfCheck(n, pickData) ==
    IF n = 2 /\ pickData.shape = "notObject" THEN "Invalid pick data format."
    ELSE RejectionTexts[n]

\* C25: in every state make_pick's validation answers every request with
\* the text of the first check the request fails, in the order room,
\* payload, turn, duplicate, position, capacity, and with no rejection when
\* the request fails none.
ValidationOrder ==
    \A roomCode \in DraftCodes \cup UnknownCodes, pickData \in PickInputs :
        LET failed == FailedChecks(roomCode, pickData)
        IN  PickValidationError(roomCode, pickData).text =
                (IF failed = {} THEN NoError.text
                 ELSE TextOfCheck(FirstOf(failed), pickData))

\* an out-of-turn rejection in a room where every player is selected, so
\* that the rejected request named a selected player
ValidationOrderWitness ==
    /\ DOMAIN draftRooms # {}
    /\ \A c \in DOMAIN draftRooms :
          PlayerIds \subseteq Range(draftRooms[c].selectedPlayerIds)
    /\ \E m \in emitted :
          m.event = "pick_error" /\ m.message.text = "It's not this team's turn."

\* C26: the out-of-turn rejection of make_pick names the team whose turn it
\* is, the room's nextTableToPick, as the 1-based number of the text.
OutOfTurnNamesTeamOnTurn ==
    \A m \in emitted :
        (m.event = "pick_error" /\ m.message.text = "It's not this team's turn.") =>
            \E c \in DOMAIN draftRooms :
                m.message.team = draftRooms[c].nextTableToPick + 1

(***************************************************************************)
(* The Turn Engine                                                         *)
(***************************************************************************)
\* the specified Turn Engine: the next team and the direction
TurnEngine(settings, picks, direction) ==
    LET N == settings.numTables
        totalSlots == N * (settings.playersPerPos["F"] + settings.playersPerPos["D"]
                             + settings.playersPerPos["G"])
        lastTeam == picks[Len(picks)].teamId
    IN  IF picks = <<>> THEN <<0, 1>>
        ELSE IF Len(picks) >= totalSlots THEN <<-1, direction>>
        ELSE IF /\ settings.isSerpentineOrder
                /\ \/ direction = 1 /\ lastTeam = N - 1
                   \/ direction = -1 /\ lastTeam = 0
        THEN <<lastTeam, 0 - direction>>
        ELSE <<(lastTeam + direction + N) % N, direction>>

\* C27: for every valid settings, pick history and stored direction the
\* pointer that calculateNextTurn yields is that of the Turn Engine, and the
\* settings and the picks of the room it was given are as before.
TurnEngineAgreement ==
    [][\A c \in DOMAIN draftRooms :
          LET given == draftRooms[c]
          IN  /\ <<draftRooms'[c].nextTableToPick, draftRooms'[c].currentPickDirection>>
                    = TurnEngine(given.settings, given.picks, given.currentPickDirection)
              /\ draftRooms'[c].settings = given.settings
              /\ draftRooms'[c].picks = given.picks]_vars

\* the turn was recomputed at a round boundary of a serpentine room of three
\* teams: team 2 picks again and the direction is backward
TurnEngineWitness ==
    \E c \in DOMAIN draftRooms :
        /\ draftRooms[c].settings.numTables = 3
        /\ draftRooms[c].settings.isSerpentineOrder
        /\ Len(draftRooms[c].picks) = 3
        /\ draftRooms[c].picks[3].teamId = 2
        /\ draftRooms[c].nextTableToPick = 2
        /\ draftRooms[c].currentPickDirection = -1

\* the pointer the Turn Engine gives when the first k picks are replayed one
\* by one from the empty history
RECURSIVE Replay(_, _, _)
Replay(settings, picks, k) ==
    IF k = 0 THEN TurnEngine(settings, <<>>, 1)
    ELSE TurnEngine(settings, SubSeq(picks, 1, k), Replay(settings, picks, k - 1)[2])

\* C28: in every state the stored turn pointer of a room is the one that
\* replaying the Turn Engine over the room's picks gives, so it depends on
\* the settings and the picks alone.
PointerIsReplay ==
    \A c \in DOMAIN draftRooms :
        <<draftRooms[c].nextTableToPick, draftRooms[c].currentPickDirection>>
            = Replay(draftRooms[c].settings, draftRooms[c].picks,
                     Len(draftRooms[c].picks))

(***************************************************************************)
(* Requests that are stale or come from outside the room                   *)
(***************************************************************************)
\* C29: of two make_pick requests that name the same team and were composed
\* for the same turn, at most one is accepted: once a pick of team t is
\* accepted, every other request that was in turn before it (it names team
\* t) is rejected in the state the accepted pick leaves.
StaleSubmissionRejected ==
    [][\A c \in DraftCodes, pickData \in PickInputs :
          (/\ PickAccepted(c)
           /\ draftRooms'[c].picks[Len(draftRooms'[c].picks)].teamId = pickData.teamId
           /\ pickData.teamId = draftRooms[c].nextTableToPick)
              => (PickValidationError(c, pickData) # NoError)']_vars

\* the step handles a make_pick, undo_pick or update_table_name that
\* connection s sends for room c
ActsOn(s, c) ==
    \/ \E pickData \in PickInputs : MakePick(s, c, pickData)
    \/ UndoPick(s, c)
    \/ \E teamId \in RenameTeamInputs, newName \in NameInputs :
          UpdateTableName(s, c, teamId, newName)

\* C30: a make_pick, undo_pick or update_table_name of a connection that is
\* not in the participants of the room changes nothing in the room.
OnlyParticipantsAct ==
    [][\A c \in DOMAIN draftRooms, s \in connected :
          (~inRoom(s, draftRooms, c) /\ ActsOn(s, c)) =>
              (c \in DOMAIN draftRooms' /\ draftRooms'[c] = draftRooms[c])]_vars

(***************************************************************************)
(* generateRoomCode                                                        *)
(***************************************************************************)
\* C31: under fair sampling, a start_draft that is inside the resampling
\* loop while some code is not the code of a live room leaves the loop: the
\* handler completes and other handlers run again.
CodeGenerationTerminates ==
    (generating # <<>> /\ AllCodes \ DOMAIN draftRooms # {})
        ~> (generating = <<>>)

\* a collision: the last sample is the code of a live room while another
\* code is free
CollisionWitness ==
    /\ generating # <<>>
    /\ generating[1].result \in DOMAIN draftRooms
    /\ AllCodes \ DOMAIN draftRooms # {}

(***************************************************************************)
(* Frame conditions                                                        *)
(***************************************************************************)
\* C32: in every step the picks of a room stay the same, grow by one pick
\* appended at the end, or lose their last element; no stored pick is
\* edited, reordered or removed from the middle.
PicksAppendOrPop ==
    [][\A c \in DOMAIN draftRooms :
          c \in DOMAIN draftRooms' =>
              LET before == draftRooms[c].picks
                  after == draftRooms'[c].picks
              IN  \/ after = before
                  \/ /\ Len(after) = Len(before) + 1
                     /\ SubSeq(after, 1, Len(before)) = before
                  \/ /\ Len(before) > 0
                     /\ after = SubSeq(before, 1, Len(before) - 1)]_vars

\* a room of one serpentine team after two picks and an undo: one pick is
\* left and the direction is forward again
PicksWitness ==
    \E c \in DOMAIN draftRooms :
        /\ draftRooms[c].settings.isSerpentineOrder
        /\ draftRooms[c].settings.numTables = 1
        /\ Len(draftRooms[c].picks) = 1
        /\ draftRooms[c].nextTableToPick = 0
        /\ draftRooms[c].currentPickDirection = 1

\* the fields of the settings that are fixed when the room is created
fixedSettings(roomState) ==
    <<roomState.settings.numTables, roomState.settings.playersPerPos,
      roomState.settings.maxSalary, roomState.settings.isSerpentineOrder,
      roomState.isSerpentineOrder>>

\* everything of a room but the team names
draftAndParticipants(roomState) ==
    <<roomState.picks, roomState.selectedPlayerIds, roomState.nextTableToPick,
      roomState.currentPickDirection, roomState.participants>>

\* C33: no step changes the numTables, playersPerPos, maxSalary or
\* serpentine flag of a room; a step that changes a team name of a room
\* changes the name of one team and leaves the picks, selected ids, turn
\* pointer and participants of the room; and a step that changes the picks
\* or a name of one room leaves every other room as it is.
FrameConditions ==
    [][\A c \in DOMAIN draftRooms :
          c \in DOMAIN draftRooms' =>
              LET before == draftRooms[c]
                  after == draftRooms'[c]
                  renamed == {t \in DOMAIN before.settings.tableNames :
                                after.settings.tableNames[t]
                                    # before.settings.tableNames[t]}
              IN  /\ fixedSettings(after) = fixedSettings(before)
                  /\ DOMAIN after.settings.tableNames = DOMAIN before.settings.tableNames
                  /\ renamed # {} =>
                        /\ Cardinality(renamed) = 1
                        /\ draftAndParticipants(after) = draftAndParticipants(before)
                  /\ (renamed # {} \/ after.picks # before.picks) =>
                        /\ DOMAIN draftRooms' = DOMAIN draftRooms
                        /\ \A d \in DOMAIN draftRooms \ {c} :
                              draftRooms'[d] = draftRooms[d]]_vars

\* two rooms with different settings, one of them with a pick and a renamed
\* team, the other as it was created
FrameWitness ==
    \E c, d \in DOMAIN draftRooms :
        /\ draftRooms[c].settings.numTables = 2
        /\ draftRooms[d].settings.numTables = 1
        /\ Len(draftRooms[c].picks) = 1
        /\ draftRooms[c].settings.tableNames[1] = "Ann"
        /\ draftRooms[d].picks = <<>>
        /\ draftRooms[d].settings.tableNames[0] = "Team 1"

(***************************************************************************)
(* Leaving a room                                                          *)
(***************************************************************************)
\* the number of pending cleanup timers for room code c
timersFor(pending, c) ==
    Cardinality({i \in 1..Len(pending) : pending[i].roomCode = c})

\* C34: when a step removes a participant from a room and others remain,
\* every remaining participant is sent the new participant list and no
\* cleanup timer is scheduled for the room; when the step empties the room,
\* exactly one cleanup timer is scheduled for its code and no participant
\* message about the room is sent.
LeaveNotifiesOrSchedules ==
    [][\A c \in DOMAIN draftRooms :
          (/\ c \in DOMAIN draftRooms'
           /\ Len(draftRooms'[c].participants) < Len(draftRooms[c].participants)) =>
              IF Len(draftRooms'[c].participants) > 0
              THEN /\ \A r \in Range(draftRooms'[c].participants) :
                         \E m \in emitted' :
                             /\ m.to = r
                             /\ m.event = "participant_update"
                             /\ m.roomCode = c
                             /\ m.participants = <<draftRooms'[c].participants>>
                   /\ timersFor(timers', c) = timersFor(timers, c)
              ELSE /\ timersFor(timers', c) = timersFor(timers, c) + 1
                   /\ \A m \in emitted' : m.roomCode # c]_vars

\* a disconnect just took a connection out of two rooms: the participant
\* that remains in the one was sent the list, the other is empty and has
\* a timer
LeaveWitness ==
    \E c, d \in DOMAIN draftRooms : \E r \in connected :
        /\ c # d
        /\ draftRooms[c].participants = <<r>>
        /\ draftRooms[d].participants = <<>>
        /\ timersFor(timers, d) = 1
        /\ timersFor(timers, c) = 0
        /\ emitted # {}
        /\ \A m \in emitted :
              /\ m.to = r
              /\ m.event = "participant_update"
              /\ m.roomCode = c
              /\ m.participants = <<(<<r>>)>>

(***************************************************************************)
(* Completed drafts                                                        *)
(***************************************************************************)
\* C35: in a room whose draft is complete every team in [0, numTables)
\* holds exactly playersPerPos[position] picks at every position, and
\* every stored pick is of a team in [0, numTables).
CompleteMeansFull ==
    \A c \in DOMAIN draftRooms :
        draftRooms[c].nextTableToPick = -1 =>
            LET roomState == draftRooms[c]
                teams == 0..(roomState.settings.numTables - 1)
            IN  /\ \A t \in teams, pos \in {"F", "D", "G"} :
                      Cardinality({i \in 1..Len(roomState.picks) :
                          /\ roomState.picks[i].teamId = t
                          /\ roomState.picks[i].position = pos})
                        = roomState.settings.playersPerPos[pos]
                /\ \A i \in 1..Len(roomState.picks) :
                      roomState.picks[i].teamId \in teams

(***************************************************************************)
(* Timers and reused codes                                                 *)
(***************************************************************************)
\* C36: a cleanup timer that deletes a room deletes the room it was set
\* for: the room under its code is still the one that was emptied when the
\* timer was set, not a room created under the same code since.
TimerDeletesItsOwnRoom ==
    [][\A i \in 1..Len(timers) :
          (/\ canFire(i)
           /\ timers' = WithoutTimer(i)
           /\ Removed(timers[i].roomCode)) =>
              lineage.scheduledFor[i] = lineage.born[timers[i].roomCode]]_vars

(***************************************************************************)
(* Membership                                                              *)
(***************************************************************************)
\* the rooms connection s is a participant of
roomsOf(s) == {c \in DOMAIN draftRooms : SetHas(draftRooms[c].participants, s)}

\* C37: every connection is a participant of at most one room.
AtMostOneRoom ==
    \A s \in Sockets : Cardinality(roomsOf(s)) <= 1

\* the connections subscribed to channel c, and the participants the server
\* tracks under code c (none when no room has the code)
subscribers(c) == channels[c]

tracked(c) == IF c \in DOMAIN draftRooms THEN Range(draftRooms[c].participants) ELSE {}

\* C38: in every reachable state the connections subscribed to the
\* broadcast channel of a room code are exactly the participants of the room
\* with that code, and nobody is subscribed to the channel of a code that has
\* no room; so a broadcast reaches exactly the tracked participants, across
\* start, join, leave (also by a non-participant), disconnect, deletion of
\* the room and creation of a new room under the same code.
SubscribersAreParticipants ==
    \A c \in AllCodes : subscribers(c) = tracked(c)

\* a second room created under a code whose first room was deleted, with
\* both connections in it
SubscribersWitness ==
    \E c \in DOMAIN draftRooms :
        /\ lineage.born[c] = 2
        /\ subscribers(c) = Sockets
        /\ tracked(c) = Sockets


====
